---- MODULE Spec2Model ----
(***************************************************************************)
(* A model of inctrl, a vendor-agnostic control layer for oscilloscopes.   *)
(*                                                                         *)
(* The module holds several specifications over one set of variables, one  *)
(* per part of the library:                                                *)
(*   Spec          the trigger arm / wait / disarm protocol of the SDS8    *)
(*                 driver against a device that may acquire at any time    *)
(*   SpecWindow    Oscilloscope.set_time_window against a device that      *)
(*                 quantises the requested per-division scale              *)
(*   SpecChannel   Oscilloscope.channel and the channel's set_range_V and  *)
(*                 set_coupling                                            *)
(*   SpecResolver  InstrumentsDB.get_spec on identification strings        *)
(*   SpecDecoder   SDS8OscilloscopeChannel.get_waveform                    *)
(* A specification leaves the variables of the other parts unchanged.      *)
(***************************************************************************)
EXTENDS Integers, Sequences, FiniteSets, TLC

VARIABLES
    \* ---- the instrument's trigger subsystem (the device, seen through SCPI)
    dev_mode,        \* reply to :TRIGGER:MODE?, lower-cased
    dev_status,      \* reply to :TRIGGER:STATUS?, lower-cased
    dev_inr0,        \* bit 0 of the INR register (new acquisition), cleared by a read
    now,             \* time.time(), in seconds
    \* ---- the caller's position in SDS8OscilloscopeTriggerNamespace
    w_pc,            \* "idle" | "query" | "check" | "done": position in wait_for_waveform
    w_timeout,       \* the timeout argument of the running call
    w_eot,           \* the error_on_timeout argument of the running call
    w_timeout_s,     \* local timeout_s
    w_mode,          \* local mode
    w_start_at,      \* local start_at
    w_result,        \* "none" | "True" | "False" | "RuntimeError"
    w_polls,         \* status polls made by the running call (capped at MaxPolls)
    w_fired,         \* whether the last poll observed the fired condition
    w_checked_at,    \* value of time.time() read by the last timeout check (-1: none yet)
    w_disarmed,      \* whether the running call started after disarm() with no arm since
    disarmed,        \* disarm() was called and no arm_*() since
    armed_reply,     \* what the last call returned, when it was is_armed(): "True" | "False"
    sent,            \* the commands the last driver call (or poll step) wrote, in order
    \* ---- set_time_window
    ladder,          \* the device's supported per-division scales, in ps
    rounding,        \* how the device quantises a requested scale
    dev_tscale,      \* the device's per-division scale, in ps
    tw_pc,           \* "idle" | "loop" | "done": position in set_time_window
    tw_window,       \* requested_time_window, in ps
    tw_ref,          \* requested_scale_ref, in ps
    tw_requested,    \* requested_scale, in ps
    tw_i,            \* loop index i
    tw_attempts,     \* set_time_scale calls made by the running call
    tw_returned,     \* the returned window in ps (-1: not returned)
    \* ---- channels
    number_of_channels,  \* properties.number_of_channels
    supported_couplings, \* the couplings the device accepts
    ch_on,           \* device: channel -> whether it is switched on and visible
    ch_coupling,     \* device: channel -> reply to :CHANNELn:COUPLING?
    ch_scale,        \* device: channel -> volts per division, in mV
    ch_offset,       \* device: channel -> vertical offset, in mV
    c_call,          \* the last call: "none" | "channel" | "set_range_V" | "set_coupling"
    c_args,          \* its arguments
    c_outcome,       \* "returned" | "RuntimeError"
    c_value,         \* what it returned
    c_before,        \* <<scale, offset>> of the addressed channel before the call
    \* ---- driver resolution
    r_idn,           \* the reply to *IDN?, a sequence of characters
    r_pc,            \* "idle" | "resolved"
    r_spec,          \* the ISpec get_spec returned
    \* ---- waveform download
    d_header,        \* the fields of the preamble the device will send
    d_data,          \* the data block the device will send, a sequence of bytes
    d_pc,            \* "idle" | "done"
    d_outcome,       \* "none" | "returned" | "TypeError" | "IndexError" | "ValueError"
    d_args,          \* the arguments get_waveform evaluated for Waveform(...)
    d_waveform,       \* the Waveform get_waveform returned
    \* ---- Duration values
    du_x, \* the left operand, a Duration
    du_y, \* the right operand, a Duration or another value
    du_z, \* a third Duration
    du_pc, \* "idle" | "done"
    du_call, \* the expression evaluated
    du_result,  \* its value, or the error it raised
    \* ---- Duration.value_of
    p_text, \* the text to parse, a sequence of characters
    p_pc, \* "idle" | "done"
    p_result,  \* the Duration returned, or the error raised
    \* ---- CommandDispatcher over a VISA resource
    cd_call, \* the driver call in progress or just returned
    cd_todo, \* the CommandDispatcher.write calls it still has to make
    cd_pc, \* "idle" | "write" | "sync" | "read" | "done"
    cd_log, \* what the call did on the VISA resource, in order
    cd_dev_in, \* commands the device has received and not yet processed
    cd_dev_out, \* replies the device has produced and nobody has read
    cd_dev_mode, \* the device's trigger mode
    cd_dev_status,  \* the device's trigger status
    \* ---- Waveform objects and the arrays they and their caller hold
    wf_heap, \* the arrays in memory, by identity (position)
    wf_objects, \* the Waveform objects, by identity (position): their private fields
    wf_snapshots, \* what each Waveform held when it was constructed
    wf_returned, \* the identities of the arrays handed to the caller
    wf_call,  \* the operation that ran last
    \* ---- oscilloscope(address): the device's identification and the call's outcome
    o_idn, \* the reply of the device to *IDN?
    o_pc, \* idle, or done once oscilloscope(address) returned or raised
    o_result  \* the driver it returned or the error it raised

trigVars == <<dev_mode, dev_status, dev_inr0, now, w_pc, w_timeout, w_eot, w_timeout_s,
              w_mode, w_start_at, w_result, w_polls, w_fired, w_checked_at, w_disarmed,
              disarmed, armed_reply, sent>>
windowVars == <<ladder, rounding, dev_tscale, tw_pc, tw_window, tw_ref, tw_requested,
                tw_i, tw_attempts, tw_returned>>
chanVars == <<number_of_channels, supported_couplings, ch_on, ch_coupling, ch_scale,
              ch_offset, c_call, c_args, c_outcome, c_value, c_before>>
resolverVars == <<r_idn, r_pc, r_spec>>
decoderVars == <<d_header, d_data, d_pc, d_outcome, d_args, d_waveform>>
durationVars == <<du_x, du_y, du_z, du_pc, du_call, du_result>>
parseVars == <<p_text, p_pc, p_result>>
dispatcherVars == <<cd_call, cd_todo, cd_pc, cd_log, cd_dev_in, cd_dev_out, cd_dev_mode, cd_dev_status>>
waveformVars == <<wf_heap, wf_objects, wf_snapshots, wf_returned, wf_call>>
scopeVars == <<o_idn, o_pc, o_result>>
\* trigVars without sent, which every driver call writes
trigVarsButSent == <<dev_mode, dev_status, dev_inr0, now, w_pc, w_timeout, w_eot,
                     w_timeout_s, w_mode, w_start_at, w_result, w_polls, w_fired,
                     w_checked_at, w_disarmed, disarmed, armed_reply>>
notTrigVars == <<windowVars, chanVars, resolverVars, decoderVars, durationVars, parseVars, dispatcherVars, waveformVars, scopeVars>>
notWindowVars == <<trigVars, chanVars, resolverVars, decoderVars, durationVars, parseVars, dispatcherVars, waveformVars, scopeVars>>
notChanVars == <<trigVarsButSent, windowVars, resolverVars, decoderVars, durationVars, parseVars, dispatcherVars, waveformVars, scopeVars>>
notResolverVars == <<trigVars, windowVars, chanVars, decoderVars, durationVars, parseVars, dispatcherVars, waveformVars, scopeVars>>
notDecoderVars == <<trigVarsButSent, windowVars, chanVars, resolverVars, durationVars, parseVars, dispatcherVars, waveformVars, scopeVars>>
notDurationVars == <<trigVars, windowVars, chanVars, resolverVars, decoderVars, parseVars, dispatcherVars, waveformVars, scopeVars>>
notParseVars == <<trigVars, windowVars, chanVars, resolverVars, decoderVars, durationVars, dispatcherVars, waveformVars, scopeVars>>
notDispatcherVars == <<trigVars, windowVars, chanVars, resolverVars, decoderVars, durationVars,
                       parseVars, waveformVars, scopeVars>>
notWaveformVars == <<trigVars, windowVars, chanVars, resolverVars, decoderVars, durationVars,
                     parseVars, dispatcherVars, scopeVars>>
notScopeVars == <<trigVars, windowVars, chanVars, resolverVars, decoderVars, durationVars,
                  parseVars, dispatcherVars, waveformVars>>
vars == <<trigVars, windowVars, chanVars, resolverVars, decoderVars, durationVars, parseVars, dispatcherVars, waveformVars, scopeVars>>

(***************************************************************************)
(* Bounds                                                                  *)
(***************************************************************************)
MaxTime == 3
MaxTimeout == 2
MaxPolls == 3

(***************************************************************************)
(* CommandDispatcher                                                       *)
(***************************************************************************)
\* CommandDispatcher.sync: the query *OPC?, whose reply is read and dropped.
sync == <<"*OPC?">>

\* CommandDispatcher.write(msg, synchronize): what goes over the wire, in order.
write(msg, synchronize) == IF synchronize THEN <<msg>> \o sync ELSE <<msg>>

(***************************************************************************)
(* The trigger protocol                                                    *)
(***************************************************************************)
TriggerModes == {"single", "auto", "normal"}
TriggerStatuses == {"stop", "ready"}

\* The timeout argument: None, or a parsable duration of a whole number of seconds
\* (negative durations parse too: the pattern accepts a leading minus sign).
Timeouts == {[isNone |-> TRUE, secs |-> 0]}
            \cup {[isNone |-> FALSE, secs |-> s] : s \in (-1)..MaxTimeout}

\* A variant of timeout_s_of that gives None a timeout of zero.
timeout_s_of_none_as_zero(timeout) == IF timeout.isNone THEN 0 ELSE timeout.secs

\* timeout_s = -1 if timeout is None else Duration.value_of(timeout).to_float(TimeUnit.S)
timeout_s_of(timeout) == IF timeout.isNone THEN -1 ELSE timeout.secs

InitDurationIdle ==
    /\ du_x = <<>>
    /\ du_y = <<>>
    /\ du_z = <<>>
    /\ du_pc = "idle"
    /\ du_call = <<>>
    /\ du_result = <<>>

InitParseIdle ==
    /\ p_text = <<>>
    /\ p_pc = "idle"
    /\ p_result = <<>>

InitDispatcherIdle ==
    /\ cd_call = <<>>
    /\ cd_todo = <<>>
    /\ cd_pc = "idle"
    /\ cd_log = <<>>
    /\ cd_dev_in = <<>>
    /\ cd_dev_out = <<>>
    /\ cd_dev_mode = "AUTO"
    /\ cd_dev_status = "stop"

InitWaveformIdle ==
    /\ wf_heap = <<>>
    /\ wf_objects = <<>>
    /\ wf_snapshots = <<>>
    /\ wf_returned = {}
    /\ wf_call = ""

InitScopeIdle ==
    /\ o_idn = <<>>
    /\ o_pc = "idle"
    /\ o_result = <<>>

InitWindowIdle ==
    /\ ladder = {}
    /\ rounding = "down"
    /\ dev_tscale = 0
    /\ tw_pc = "idle"
    /\ tw_window = 0
    /\ tw_ref = 0
    /\ tw_requested = 0
    /\ tw_i = 0
    /\ tw_attempts = 0
    /\ tw_returned = -1

InitChannelIdle ==
    /\ number_of_channels = 0
    /\ supported_couplings = {}
    /\ ch_on = <<>>
    /\ ch_coupling = <<>>
    /\ ch_scale = <<>>
    /\ ch_offset = <<>>
    /\ c_call = "none"
    /\ c_args = <<>>
    /\ c_outcome = "none"
    /\ c_value = <<>>
    /\ c_before = <<>>

InitResolverIdle ==
    /\ r_idn = <<>>
    /\ r_pc = "idle"
    /\ r_spec = <<>>

InitDecoderIdle ==
    /\ d_header = <<>>
    /\ d_data = <<>>
    /\ d_pc = "idle"
    /\ d_outcome = "none"
    /\ d_args = <<>>
    /\ d_waveform = <<>>

\* The parts a specification does not exercise.
InitDeviceIdle ==
    /\ dev_mode = "auto"
    /\ dev_status = "stop"
    /\ dev_inr0 = FALSE

InitTriggerIdle ==
    /\ now = 0
    /\ w_pc = "idle"
    /\ w_timeout = [isNone |-> TRUE, secs |-> 0]
    /\ w_eot = FALSE
    /\ w_timeout_s = -1
    /\ w_mode = "single"
    /\ w_start_at = 0
    /\ w_result = "none"
    /\ w_polls = 0
    /\ w_fired = FALSE
    /\ w_checked_at = -1
    /\ w_disarmed = FALSE
    /\ disarmed = FALSE
    /\ armed_reply = "none"
    /\ sent = <<>>

\* The driver keeps no trigger state of its own; the device may be in any state
\* when the driver is constructed.
Init ==
    /\ dev_mode \in TriggerModes
    /\ dev_status \in TriggerStatuses
    /\ dev_inr0 \in BOOLEAN
    /\ InitTriggerIdle
    /\ InitScopeIdle
    /\ InitWaveformIdle
    /\ InitDispatcherIdle
    /\ InitParseIdle
    /\ InitDurationIdle
    /\ InitWindowIdle
    /\ InitChannelIdle
    /\ InitResolverIdle
    /\ InitDecoderIdle

\* A call of the trigger namespace starts only when no wait_for_waveform is
\* running: the library is single-threaded and the wait blocks its caller.
CallerFree == w_pc \in {"idle", "done"}

\* The next call of the caller starts: the result and the locals of a finished
\* wait_for_waveform are gone.
WaitForgotten ==
    /\ w_pc' = "idle"
    /\ w_timeout' = [isNone |-> TRUE, secs |-> 0]
    /\ w_eot' = FALSE
    /\ w_timeout_s' = -1
    /\ w_mode' = "single"
    /\ w_start_at' = 0
    /\ w_result' = "none"
    /\ w_polls' = 0
    /\ w_fired' = FALSE
    /\ w_checked_at' = -1
    /\ w_disarmed' = FALSE

waitVars == <<w_pc, w_timeout, w_eot, w_timeout_s, w_mode, w_start_at, w_result,
              w_polls, w_fired, w_checked_at, w_disarmed>>

\* arm_single / arm_auto / arm_normal: the mode command, then run, synchronized.
arm(modeCommand, mode) ==
    /\ CallerFree
    /\ sent' = write(modeCommand, FALSE) \o write(":TRIGGER:RUN", TRUE)
    /\ dev_mode' = mode
    /\ dev_status' = "ready"
    /\ disarmed' = FALSE
    /\ armed_reply' = "none"
    /\ WaitForgotten
    /\ UNCHANGED <<dev_inr0, now>>

arm_single == arm(":TRIGGER:MODE SINGLE", "single")
arm_auto == arm(":TRIGGER:MODE AUTO", "auto")
arm_normal == arm(":TRIGGER:MODE NORMAL", "normal")

\* disarm: the stop command, synchronized.
disarm ==
    /\ CallerFree
    /\ sent' = write(":TRIGGER:STOP", TRUE)
    /\ dev_status' = "stop"
    /\ disarmed' = TRUE
    /\ armed_reply' = "none"
    /\ WaitForgotten
    /\ UNCHANGED <<dev_mode, dev_inr0, now>>

\* is_armed: status != "stop".
is_armed ==
    /\ CallerFree
    /\ sent' = <<":TRIGGER:STATUS?">>
    /\ armed_reply' = IF dev_status # "stop" THEN "True" ELSE "False"
    /\ WaitForgotten
    /\ UNCHANGED <<dev_mode, dev_status, dev_inr0, now, disarmed>>

\* wait_for_waveform, up to the loop: timeout_s, the mode query, start_at.
wait_for_waveform_start(timeout, error_on_timeout) ==
    /\ CallerFree
    /\ w_pc' = "query"
    /\ w_timeout' = timeout
    /\ w_eot' = error_on_timeout
    /\ w_timeout_s' = timeout_s_of(timeout)
    /\ w_mode' = dev_mode
    /\ w_start_at' = now
    /\ w_result' = "none"
    /\ w_polls' = 0
    /\ w_fired' = FALSE
    /\ w_checked_at' = -1
    /\ w_disarmed' = disarmed
    /\ sent' = <<":TRIGGER:MODE?">>
    /\ armed_reply' = "none"
    /\ UNCHANGED <<dev_mode, dev_status, dev_inr0, now, disarmed>>

\* The fired condition a poll observes: status "stop" in single mode, bit 0 of INR
\* in the other modes.
fired_condition(mode) == IF mode = "single" THEN dev_status = "stop" ELSE dev_inr0

\* One status poll of the loop: return True when it observes the fired condition.
wait_for_waveform_poll ==
    /\ w_pc = "query"
    /\ sent' = IF w_mode = "single" THEN <<":TRIGGER:STATUS?">> ELSE <<"INR?">>
    /\ w_polls' = IF w_polls < MaxPolls THEN w_polls + 1 ELSE w_polls
    /\ w_fired' = fired_condition(w_mode)
    /\ dev_inr0' = IF w_mode = "single" THEN dev_inr0 ELSE FALSE
    /\ IF fired_condition(w_mode)
       THEN w_pc' = "done" /\ w_result' = "True"
       ELSE w_pc' = "check" /\ w_result' = w_result
    /\ UNCHANGED <<dev_mode, dev_status, now, w_timeout, w_eot, w_timeout_s, w_mode,
                   w_start_at, w_checked_at, w_disarmed, disarmed, armed_reply>>

\* A variant of timed_out that needs more than the timeout to have elapsed.
timed_out_strictly(t) == w_timeout_s >= 0 /\ t - w_start_at > w_timeout_s

\* Whether the timeout branch of the loop is taken at the time `t` it reads.
timed_out(t) == w_timeout_s >= 0 /\ t - w_start_at >= w_timeout_s

\* The elif of the loop: after a poll that did not observe the fired condition.
wait_for_waveform_check ==
    /\ w_pc = "check"
    /\ w_checked_at' = now
    /\ IF timed_out(now)
       THEN /\ w_pc' = "done"
            /\ w_result' = IF w_eot THEN "RuntimeError" ELSE "False"
       ELSE /\ w_pc' = "query"
            /\ w_result' = w_result
    /\ UNCHANGED <<dev_mode, dev_status, dev_inr0, now, w_timeout, w_eot, w_timeout_s,
                   w_mode, w_start_at, w_polls, w_fired, w_disarmed, disarmed,
                   armed_reply, sent>>

\* The device acquires a waveform: possible whenever it is running. A single-shot
\* acquisition stops the device; every acquisition sets bit 0 of INR.
DeviceAcquire ==
    /\ dev_status # "stop"
    /\ dev_inr0' = TRUE
    /\ dev_status' = IF dev_mode = "single" THEN "stop" ELSE dev_status
    /\ UNCHANGED <<dev_mode, now, waitVars, disarmed, armed_reply, sent>>

\* A second passes.
Tick ==
    /\ now < MaxTime
    /\ now' = now + 1
    /\ UNCHANGED <<dev_mode, dev_status, dev_inr0, waitVars, disarmed, armed_reply, sent>>

Next ==
    \/ (arm_single /\ UNCHANGED notTrigVars)
    \/ (arm_auto /\ UNCHANGED notTrigVars)
    \/ (arm_normal /\ UNCHANGED notTrigVars)
    \/ (disarm /\ UNCHANGED notTrigVars)
    \/ (is_armed /\ UNCHANGED notTrigVars)
    \/ (\E timeout \in Timeouts, error_on_timeout \in BOOLEAN :
            wait_for_waveform_start(timeout, error_on_timeout) /\ UNCHANGED notTrigVars)
    \/ (wait_for_waveform_poll /\ UNCHANGED notTrigVars)
    \/ (wait_for_waveform_check /\ UNCHANGED notTrigVars)
    \/ (DeviceAcquire /\ UNCHANGED notTrigVars)
    \/ (Tick /\ UNCHANGED notTrigVars)

Spec == Init /\ [][Next]_vars

\* The same program when a call of wait_for_waveform that is under way keeps running
\* (each status poll returns, each test of the clock is made) and time passes.
Fairness ==
    /\ WF_vars(wait_for_waveform_poll /\ UNCHANGED notTrigVars)
    /\ WF_vars(wait_for_waveform_check /\ UNCHANGED notTrigVars)
    /\ WF_vars(Tick /\ UNCHANGED notTrigVars)

FairSpec == Spec /\ Fairness

(***************************************************************************)
(* Claims about the trigger protocol, checked under Spec                   *)
(***************************************************************************)

\* C1: a wait_for_waveform call made after disarm(), with no arm_*() since, never
\* succeeds silently: it ends in an error, not in True (nor in False).
C1_WaitAfterDisarmFails ==
    (w_pc = "done" /\ w_disarmed) => w_result = "RuntimeError"

\* C4: with a timeout t >= 0 a call that does not return True ends, False when
\* error_on_timeout is false and raising when it is true, at a timeout check that
\* read a time at least t after the start; it goes on polling only while the time it
\* read is less than t after the start, so with t = 0 it ends after the first poll;
\* and it returns True only when its last poll observed the fired condition.
C4_TimeoutOutcome ==
    /\ (w_pc = "done" /\ w_result # "True") =>
            /\ w_timeout_s >= 0
            /\ w_result = (IF w_eot THEN "RuntimeError" ELSE "False")
            /\ w_checked_at - w_start_at >= w_timeout_s
            /\ ~w_fired
    /\ (w_pc = "query" /\ w_polls > 0 /\ w_timeout_s >= 0) =>
            w_checked_at - w_start_at < w_timeout_s
    /\ (w_pc = "query" /\ w_timeout_s = 0) => w_polls = 0
    /\ (w_pc = "done" /\ w_result = "True") => w_fired

\* A call with a timeout of 2 s that returned False after more than one poll.
C4_Witness ==
    /\ w_pc = "done"
    /\ w_result = "False"
    /\ w_timeout_s = 2
    /\ w_polls >= 2
    /\ w_checked_at - w_start_at >= 2

\* C24: a call of wait_for_waveform with a timeout other than None terminates, also
\* when the device never reports a fired trigger and also for a zero or negative
\* timeout: it eventually returns or raises.  (A call whose timeout ends after the
\* last second of the clock modelled is left out.)
C24_WaitWithTimeoutTerminates ==
    (/\ w_pc \in {"query", "check"}
     /\ ~w_timeout.isNone
     /\ w_start_at + w_timeout.secs <= MaxTime) ~> (w_pc = "done")

\* C5: a call with timeout None never returns False and never raises, whatever
\* error_on_timeout is; it keeps polling while no poll has observed the fired
\* condition and returns True at the first poll that does.
C5_NoneNeverTimesOut ==
    w_timeout.isNone =>
        /\ w_result \notin {"False", "RuntimeError"}
        /\ w_pc = "done" => (w_result = "True" /\ w_fired)
        /\ w_pc \in {"query", "check"} => (w_result = "none" /\ ~w_fired)

\* A call with timeout None and error_on_timeout that polled for at least two
\* seconds, more than once, and then returned True.
C5_Witness ==
    /\ w_timeout.isNone
    /\ w_eot
    /\ w_pc = "done"
    /\ w_result = "True"
    /\ w_polls >= 2
    /\ w_checked_at - w_start_at >= 2


(***************************************************************************)
(* Duration, as far as set_time_window uses it. A Duration is modelled by  *)
(* its length in picoseconds: its unit changes how it prints, not how it   *)
(* compares (to_float scales exactly, by a power of ten).                  *)
(***************************************************************************)
ONE_PICOSECOND == 1

Abs(x) == IF x < 0 THEN -x ELSE x

\* Duration.__eq__: abs(self - other) < ONE_PICOSECOND
DurationEq(a, b) == Abs(a - b) < ONE_PICOSECOND

\* Duration.__ge__: self > other, or self == other
DurationGe(a, b) == a > b \/ DurationEq(a, b)

(***************************************************************************)
(* Oscilloscope.set_time_window                                            *)
(***************************************************************************)
number_of_time_divisions == 10
MaxAttempts == 50

\* The per-division scales a device may support, in ps (the low end of the SDS8
\* ladder); a device's ladder is any non-empty set of them.
LadderValues == {200, 500, 1000, 2000}
Ladders == (SUBSET LadderValues) \ {{}}
Roundings == {"down", "up", "nearest"}

\* Requested windows, in ps: multiples of 100 ps, so that the per-division scale
\* and its widenings by tenths are whole picoseconds.
MaxWindow == 25
Windows == {100 * k : k \in 1..MaxWindow}

SetMax(S) == CHOOSE x \in S : \A y \in S : y <= x
SetMin(S) == CHOOSE x \in S : \A y \in S : x <= y

\* The scale a device with ladder `l` ends up with when asked for `scale`: the
\* nearest supported value below, above, or on either side (a tie goes up), and the
\* end of the ladder when the request lies beyond it.
Quantise(l, r, scale) ==
    LET below == {v \in l : v <= scale}
        above == {v \in l : v >= scale}
        lo == IF below = {} THEN SetMin(l) ELSE SetMax(below)
        hi == IF above = {} THEN SetMax(l) ELSE SetMin(above)
    IN  CASE r = "down" -> lo
          [] r = "up" -> hi
          [] OTHER -> IF Abs(scale - lo) < Abs(hi - scale) THEN lo ELSE hi

\* Oscilloscope.get_time_window: get_time_scale() * number_of_time_divisions.
get_time_window(scale) == scale * number_of_time_divisions

\* The request after a rejected attempt i: requested_scale_ref * (1 + 0.1 * i).
widened(ref, i) == (ref * (10 + i)) \div 10

InitWindow ==
    /\ ladder \in Ladders
    /\ rounding \in Roundings
    /\ dev_tscale \in ladder
    /\ tw_pc = "idle"
    /\ tw_window = 0
    /\ tw_ref = 0
    /\ tw_requested = 0
    /\ tw_i = 0
    /\ tw_attempts = 0
    /\ tw_returned = -1
    /\ InitDeviceIdle
    /\ InitTriggerIdle
    /\ InitScopeIdle
    /\ InitWaveformIdle
    /\ InitDispatcherIdle
    /\ InitParseIdle
    /\ InitDurationIdle
    /\ InitChannelIdle
    /\ InitResolverIdle
    /\ InitDecoderIdle

\* set_time_window, up to the loop.
set_time_window_start(time_window) ==
    /\ tw_pc \in {"idle", "done"}
    /\ tw_pc' = "loop"
    /\ tw_window' = time_window
    /\ tw_ref' = time_window \div number_of_time_divisions
    /\ tw_requested' = time_window \div number_of_time_divisions
    /\ tw_i' = 0
    /\ tw_attempts' = 0
    /\ tw_returned' = -1
    /\ UNCHANGED <<ladder, rounding, dev_tscale>>

\* One pass of the loop: set_time_scale(requested_scale), then either return the
\* window the device now has or widen the request.
set_time_window_attempt ==
    /\ tw_pc = "loop"
    /\ tw_i < MaxAttempts
    /\ dev_tscale' = Quantise(ladder, rounding, tw_requested)
    /\ tw_attempts' = tw_attempts + 1
    /\ IF DurationGe(dev_tscale', tw_requested)
       THEN /\ tw_pc' = "done"
            /\ tw_returned' = get_time_window(dev_tscale')
            /\ UNCHANGED <<tw_requested, tw_i>>
       ELSE /\ tw_requested' = widened(tw_ref, tw_i)
            /\ tw_i' = tw_i + 1
            /\ UNCHANGED <<tw_pc, tw_returned>>
    /\ UNCHANGED <<ladder, rounding, tw_window, tw_ref>>

\* The loop is exhausted: return the window the device has.
set_time_window_exhausted ==
    /\ tw_pc = "loop"
    /\ tw_i = MaxAttempts
    /\ tw_pc' = "done"
    /\ tw_returned' = get_time_window(dev_tscale)
    /\ UNCHANGED <<ladder, rounding, dev_tscale, tw_window, tw_ref, tw_requested, tw_i,
                   tw_attempts>>

NextWindow ==
    \/ (\E time_window \in Windows :
            set_time_window_start(time_window) /\ UNCHANGED notWindowVars)
    \/ (set_time_window_attempt /\ UNCHANGED notWindowVars)
    \/ (set_time_window_exhausted /\ UNCHANGED notWindowVars)

SpecWindow == InitWindow /\ [][NextWindow]_vars

(***************************************************************************)
(* Claims about set_time_window, checked under SpecWindow                  *)
(***************************************************************************)

\* C2: the window set_time_window returns is equal to or larger than the window
\* requested, whatever the ladder and the device's rounding.
C2_WindowAtLeastRequested ==
    tw_pc = "done" => DurationGe(tw_returned, tw_window)

\* The smallest supported window that is not below the requested one.
SmallestSupportedWindow ==
    get_time_window(SetMin({v \in ladder : v >= tw_ref}))

\* C3: when the ladder does not hold the requested per-division scale exactly (and
\* holds a larger one), set_time_window returns a window that is >= the requested
\* one and <= the smallest supported window that is >= the requested one.
C3_SmallestSupportedWindow ==
    (tw_pc = "done" /\ tw_ref \notin ladder /\ \E v \in ladder : v >= tw_ref) =>
        /\ tw_returned >= tw_window
        /\ tw_returned <= SmallestSupportedWindow

\* C21: set_time_window makes at most 50 set_time_scale attempts, and every attempt
\* after a rejected one requests a larger scale than the attempt before it: the
\* requested scales are strictly increasing.
C21_RequestsStrictlyIncrease ==
    /\ [](tw_attempts <= MaxAttempts)
    /\ [][(tw_pc = "loop" /\ tw_attempts' = tw_attempts + 1 /\ tw_pc' = "loop")
              => tw_requested' > tw_requested]_vars

\* C20: the retry loop of set_time_window stops at the first attempt after which the
\* scale the device reports is >= target / number_of_time_divisions: once the device
\* has reported such a scale, no further set_time_scale call is made.
C20_StopsAtFirstSufficientScale ==
    [][(tw_pc = "loop" /\ tw_attempts > 0 /\ DurationGe(dev_tscale, tw_ref))
            => tw_attempts' = tw_attempts]_vars

(***************************************************************************)
(* Channels: Oscilloscope.channel, set_range_V, set_coupling               *)
(***************************************************************************)
number_of_vertical_divisions == 8

MaxChannels == 2
MaxChannelId == 3
MaxVolt == 1

ChannelCoupling == {"AC", "DC", "GND"}

\* Voltages a caller asks for, in mV: multiples of 8 mV, so that the scale and the
\* offset set_range_V computes are whole millivolts.
Volts == {8 * k : k \in (-MaxVolt)..MaxVolt}

ChannelCommand(channel, text) == ":CHANNEL" \o ToString(channel) \o text

\* The device runs a command addressed to a channel it has and ignores the others.
DeviceHas(channel) == channel \in 1..number_of_channels

InitChannel ==
    /\ number_of_channels \in 1..MaxChannels
    /\ supported_couplings \in {ChannelCoupling, {"AC", "DC"}}
    /\ ch_on = [n \in 1..number_of_channels |-> FALSE]
    /\ ch_coupling = [n \in 1..number_of_channels |-> "DC"]
    /\ ch_scale = [n \in 1..number_of_channels |-> 1]
    /\ ch_offset = [n \in 1..number_of_channels |-> 0]
    /\ c_call = "none"
    /\ c_args = <<>>
    /\ c_outcome = "none"
    /\ c_value = <<>>
    /\ c_before = <<>>
    /\ InitDeviceIdle
    /\ InitTriggerIdle
    /\ InitScopeIdle
    /\ InitWaveformIdle
    /\ InitDispatcherIdle
    /\ InitParseIdle
    /\ InitDurationIdle
    /\ InitWindowIdle
    /\ InitResolverIdle
    /\ InitDecoderIdle

\* SDS8Oscilloscope.channel: switch the channel on, make it visible, return a handle.
channel(id) ==
    /\ sent' = write(ChannelCommand(id, ":SWITCH ON"), FALSE)
                   \o write(ChannelCommand(id, ":VISIBLE ON"), FALSE)
    /\ ch_on' = IF DeviceHas(id) THEN [ch_on EXCEPT ![id] = TRUE] ELSE ch_on
    /\ c_call' = "channel"
    /\ c_args' = <<id>>
    /\ c_outcome' = "returned"
    /\ c_value' = <<id>>
    /\ c_before' = <<>>
    /\ UNCHANGED <<number_of_channels, supported_couplings, ch_coupling, ch_scale,
                   ch_offset>>

\* A handle the caller holds, for a channel the device has: channel(n) was called.
Handle(n) == DeviceHas(n) /\ ch_on[n]

\* The device accepts a positive scale and keeps its scale otherwise.
DeviceScale(old, v) == IF v > 0 THEN v ELSE old

\* ScopeChanel.get_range_V: (-offset - dv, -offset + dv)
get_range_V(scale, offset) ==
    LET dv == (scale * number_of_vertical_divisions) \div 2
    IN  <<-offset - dv, -offset + dv>>

\* ScopeChanel.set_range_V, with the driver's set_scale_V and set_offset_V.
set_range_V(n, v_min, v_max) ==
    LET scale == (v_max - v_min) \div number_of_vertical_divisions
        offset_V == ((v_max - v_min) \div 2) - v_max
        new_scale == DeviceScale(ch_scale[n], scale)
    IN  /\ Handle(n)
        /\ sent' = write(ChannelCommand(n, ":SCALE " \o ToString(scale)), TRUE)
                       \o <<ChannelCommand(n, ":SCALE?")>>
                       \o write(ChannelCommand(n, ":OFFSET " \o ToString(offset_V)), TRUE)
                       \o <<ChannelCommand(n, ":OFFSET?")>>
                       \o <<ChannelCommand(n, ":OFFSET?"), ChannelCommand(n, ":SCALE?")>>
        /\ ch_scale' = [ch_scale EXCEPT ![n] = new_scale]
        /\ ch_offset' = [ch_offset EXCEPT ![n] = offset_V]
        /\ c_call' = "set_range_V"
        /\ c_args' = <<n, v_min, v_max>>
        /\ c_outcome' = "returned"
        /\ c_value' = get_range_V(new_scale, offset_V)
        /\ c_before' = <<ch_scale[n], ch_offset[n]>>
        /\ UNCHANGED <<number_of_channels, supported_couplings, ch_on, ch_coupling>>

\* SDS8OscilloscopeChannel.get_coupling: the reply mapped to ChannelCoupling.
get_coupling(reply) ==
    CASE reply = "AC" -> "AC"
      [] reply = "DC" -> "DC"
      [] reply = "GND" -> "DC"

\* The device takes a coupling it supports and keeps its coupling otherwise.
DeviceCoupling(old, coupling) == IF coupling \in supported_couplings THEN coupling ELSE old

\* SDS8OscilloscopeChannel.set_coupling
set_coupling(n, coupling, fail_on_error) ==
    LET reply == DeviceCoupling(ch_coupling[n], coupling)
        configured_coupling == get_coupling(reply)
    IN  /\ Handle(n)
        /\ sent' = write(ChannelCommand(n, ":COUPLING " \o coupling), TRUE)
                       \o <<ChannelCommand(n, ":COUPLING?")>>
        /\ ch_coupling' = [ch_coupling EXCEPT ![n] = reply]
        /\ c_call' = "set_coupling"
        /\ c_args' = <<n, coupling, fail_on_error>>
        /\ IF configured_coupling # coupling /\ fail_on_error
           THEN c_outcome' = "RuntimeError" /\ c_value' = <<>>
           ELSE c_outcome' = "returned" /\ c_value' = <<configured_coupling>>
        /\ c_before' = <<>>
        /\ UNCHANGED <<number_of_channels, supported_couplings, ch_on, ch_scale,
                       ch_offset>>

NextChannel ==
    \/ (\E id \in 0..MaxChannelId : channel(id) /\ UNCHANGED notChanVars)
    \/ (\E n \in 1..MaxChannels, v_min \in Volts, v_max \in Volts :
            set_range_V(n, v_min, v_max) /\ UNCHANGED notChanVars)
    \/ (\E n \in 1..MaxChannels, coupling \in ChannelCoupling, fail_on_error \in BOOLEAN :
            set_coupling(n, coupling, fail_on_error) /\ UNCHANGED notChanVars)

SpecChannel == InitChannel /\ [][NextChannel]_vars

(***************************************************************************)
(* Claims about channels, checked under SpecChannel                        *)
(***************************************************************************)

\* The commands by which channel(id) enables channel `id`.
EnableCommands(id) == {ChannelCommand(id, ":SWITCH ON"), ChannelCommand(id, ":VISIBLE ON")}

\* C6: channel(id) fails for an id that is not a channel of the instrument and then
\* sends no enable command; for a valid id it returns a handle to the channel, which
\* is then on.
C6_ChannelRejectsInvalidId ==
    c_call = "channel" =>
        IF c_args[1] \in 1..number_of_channels
        THEN c_outcome = "returned" /\ c_value = <<c_args[1]>> /\ ch_on[c_args[1]]
        ELSE /\ c_outcome = "RuntimeError"
             /\ \A i \in DOMAIN sent : sent[i] \notin EnableCommands(c_args[1])

\* C7: set_range_V(v_min, v_max) with v_min >= v_max fails and leaves the channel's
\* scale and offset on the device as they were.
C7_RangeRejectsEmptyRange ==
    (c_call = "set_range_V" /\ c_args[2] >= c_args[3]) =>
        /\ c_outcome = "RuntimeError"
        /\ <<ch_scale[c_args[1]], ch_offset[c_args[1]]>> = c_before

\* C8: set_coupling(c, fail_on_error = True) raises exactly when the device ends up
\* with a coupling other than c and returns c when the device took c;
\* set_coupling(c, fail_on_error = False) does not raise and returns the coupling the
\* device ended up with.
C8_CouplingStrictOrBestEffort ==
    c_call = "set_coupling" =>
        LET coupling == c_args[2]
            fail_on_error == c_args[3]
            actual == ch_coupling[c_args[1]]
        IN  IF fail_on_error
            THEN /\ (c_outcome = "RuntimeError") <=> (actual # coupling)
                 /\ (actual = coupling) => c_value = <<coupling>>
            ELSE c_outcome = "returned" /\ c_value = <<actual>>

(***************************************************************************)
(* Driver resolution: InstrumentsDB.get_spec                               *)
(* A string is a sequence of one-character strings.                        *)
(***************************************************************************)
MaxIdnFields == 5

SiglentTechnologies ==
    <<"S", "i", "g", "l", "e", "n", "t", " ",
      "T", "e", "c", "h", "n", "o", "l", "o", "g", "i", "e", "s">>
SDS8 == <<"S", "D", "S", "8">>

\* Identification strings are fields joined by commas. A field is empty, the vendor
\* name or the model prefix, alone or with more text before or after it, or text
\* that ends in a line break.
IdnFields == {<<>>, SiglentTechnologies, SiglentTechnologies \o <<"x">>,
              SDS8, SDS8 \o <<"x">>, <<"x">> \o SDS8, <<"x", "\n">>}

RECURSIVE JoinWithCommas(_)
JoinWithCommas(fields) ==
    IF fields = <<>> THEN <<>>
    ELSE IF Len(fields) = 1 THEN fields[1]
    ELSE Head(fields) \o <<",">> \o JoinWithCommas(Tail(fields))

Idns == {JoinWithCommas(fs) : fs \in UNION {[1..n -> IdnFields] : n \in 0..MaxIdnFields}}

\* The text the pattern's `$` lets the fields end at: the end of the string, or just
\* before a line break that ends the string.
BeforeFinalLineBreak(s) ==
    IF Len(s) > 0 /\ s[Len(s)] = "\n" THEN SubSeq(s, 1, Len(s) - 1) ELSE s

\* `(.+),` ... `(.+)$`: `text` as k comma-separated groups, each of at least one
\* character, none a line break; a group is greedy, so it ends at the last comma
\* after which the rest still matches. <<>> when there is no match.
RECURSIVE Groups(_, _)
Groups(text, k) ==
    IF k = 1
    THEN IF Len(text) >= 1 /\ \A i \in 1..Len(text) : text[i] # "\n"
         THEN <<text>> ELSE <<>>
    ELSE LET rest(p) == SubSeq(text, p + 1, Len(text))
             ends == {p \in 2..Len(text) :
                        /\ text[p] = ","
                        /\ \A i \in 1..(p - 1) : text[i] # "\n"
                        /\ Groups(rest(p), k - 1) # <<>>}
         IN  IF ends = {} THEN <<>>
             ELSE LET p == SetMax(ends)
                  IN  <<SubSeq(text, 1, p - 1)>> \o Groups(rest(p), k - 1)

\* IDN_REGEX.match(idn): the four groups make, model, serial_number, firmware.
IDN_REGEX_match(idn) == Groups(BeforeFinalLineBreak(idn), 4)

\* _idn_to_spec_initial
idn_to_spec_initial(address, idn) ==
    LET idn_match == IDN_REGEX_match(idn)
    IN  IF idn_match # <<>>
        THEN [name |-> address, address |-> address,
              make |-> idn_match[1], model |-> idn_match[2],
              serial_number |-> idn_match[3], firmware_version |-> idn_match[4],
              instrument_type |-> "Unknown", instrument_class |-> "None"]
        ELSE [name |-> address, address |-> address,
              make |-> <<>>, model |-> <<>>,
              serial_number |-> <<>>, firmware_version |-> <<>>,
              instrument_type |-> "Unknown", instrument_class |-> "None"]

\* A variant of startswith that accepts the prefix alone.
startswith_whole(s, prefix) == s = prefix

\* str.startswith
startswith(s, prefix) ==
    Len(s) >= Len(prefix) /\ SubSeq(s, 1, Len(prefix)) = prefix

\* InstrumentsDB.__resolve_siglent
resolve_siglent(spec) ==
    IF startswith(spec.model, SDS8)
    THEN [spec EXCEPT !.instrument_type = "Oscilloscope",
                      !.instrument_class = "SDS8Oscilloscope"]
    ELSE spec

\* The vendor that get_spec's match statement has a case for.
is_registered_make(make) == make = SiglentTechnologies

\* InstrumentsDB.get_spec
get_spec(address, idn) ==
    LET spec == idn_to_spec_initial(address, idn)
    IN  IF is_registered_make(spec.make) THEN resolve_siglent(spec) ELSE spec

InitResolver ==
    /\ r_idn \in Idns
    /\ r_pc = "idle"
    /\ r_spec = <<>>
    /\ InitDeviceIdle
    /\ InitTriggerIdle
    /\ InitScopeIdle
    /\ InitWaveformIdle
    /\ InitDispatcherIdle
    /\ InitParseIdle
    /\ InitDurationIdle
    /\ InitWindowIdle
    /\ InitChannelIdle
    /\ InitDecoderIdle

\* The resolution step of _get_spec / list_instruments: get_spec(address, idn).
Resolve(address) ==
    /\ r_pc = "idle"
    /\ r_pc' = "resolved"
    /\ r_spec' = get_spec(address, r_idn)
    /\ UNCHANGED r_idn

NextResolver ==
    \E address \in {"TCPIP0::scope"} : Resolve(address) /\ UNCHANGED notResolverVars

SpecResolver == InitResolver /\ [][NextResolver]_vars

(***************************************************************************)
(* Claims about driver resolution, checked under SpecResolver              *)
(***************************************************************************)

\* The fields of a string split at every comma.
RECURSIVE SplitAtCommas(_)
SplitAtCommas(s) ==
    IF \A i \in 1..Len(s) : s[i] # ","
    THEN <<s>>
    ELSE LET p == SetMin({i \in 1..Len(s) : s[i] = ","})
         IN  <<SubSeq(s, 1, p - 1)>> \o SplitAtCommas(SubSeq(s, p + 1, Len(s)))

\* C9: get_spec returns type OSCILLOSCOPE with the SDS8 constructor bound exactly
\* when the parsed make is "Siglent Technologies" and the parsed model starts with
\* "SDS8", and type UNKNOWN with no constructor otherwise; an identification of
\* fewer than 4 comma-separated fields gives the bare descriptor, and one of exactly
\* 4 non-empty fields on one line is parsed into those fields. So the type is
\* OSCILLOSCOPE exactly when a constructor is bound.
C9_ResolvedIffSiglentSDS8 ==
    r_pc = "resolved" =>
        LET fields == SplitAtCommas(r_idn)
            matched == /\ r_spec.make = SiglentTechnologies
                       /\ Len(r_spec.model) >= 4
                       /\ SubSeq(r_spec.model, 1, 4) = <<"S", "D", "S", "8">>
        IN  /\ IF matched
               THEN /\ r_spec.instrument_type = "Oscilloscope"
                    /\ r_spec.instrument_class = "SDS8Oscilloscope"
               ELSE /\ r_spec.instrument_type = "Unknown"
                    /\ r_spec.instrument_class = "None"
            /\ (r_spec.instrument_type = "Oscilloscope") <=> (r_spec.instrument_class # "None")
            /\ Len(fields) < 4 =>
                    /\ r_spec.make = <<>> /\ r_spec.model = <<>>
                    /\ r_spec.serial_number = <<>> /\ r_spec.firmware_version = <<>>
                    /\ r_spec.instrument_type = "Unknown"
            /\ (/\ Len(fields) = 4
                /\ \A f \in 1..4 : fields[f] # <<>>
                /\ \A i \in 1..Len(r_idn) : r_idn[i] # "\n") =>
                    /\ r_spec.make = fields[1] /\ r_spec.model = fields[2]
                    /\ r_spec.serial_number = fields[3]
                    /\ r_spec.firmware_version = fields[4]

\* An identification of the registered vendor whose model is longer than the prefix
\* was resolved to the oscilloscope driver.
C9_Witness ==
    /\ r_pc = "resolved"
    /\ r_spec.instrument_type = "Oscilloscope"
    /\ r_spec.instrument_class = "SDS8Oscilloscope"
    /\ Len(r_spec.model) > 4

(***************************************************************************)
(* Waveform download: SDS8OscilloscopeChannel.get_waveform                 *)
(* Volts are in mV, times in ps; a sample is an exact fraction num / den.  *)
(***************************************************************************)
MaxTdivIndex == 2
MaxDataBytes == 3

\* tdiv_enum: 39 per-division values, 200 ps to 1000 s in steps of 1-2-5, in ps.
tdiv_enum_len == 39

RECURSIVE Pow10(_)
Pow10(n) == IF n = 0 THEN 1 ELSE 10 * Pow10(n - 1)

tdiv_enum(index) == <<200, 500, 1000>>[(index % 3) + 1] * Pow10(index \div 3)

\* unpack("<H", ...): an unsigned 16-bit little-endian integer from two bytes.
unpack_H(bytes) == bytes[1] + 256 * bytes[2]

\* np.frombuffer(data, "<h"): signed 16-bit little-endian codes from pairs of bytes.
int16(lo, hi) ==
    LET u == lo + 256 * hi
    IN  IF u >= 32768 THEN u - 65536 ELSE u

frombuffer_h(data) == [i \in 1..(Len(data) \div 2) |-> int16(data[2 * i - 1], data[2 * i])]

\* int(x / y) for y > 0: the quotient cut toward zero.
int_div(x, y) == IF x >= 0 THEN x \div y ELSE -((-x) \div y)

\* v * vertical_scale / code_per_division - vertical_offset
sample_V(v, header) ==
    [num |-> v * header.vertical_scale - header.vertical_offset * header.code_per_division,
     den |-> header.code_per_division]

\* The arguments of the Waveform(...) call at the end of get_waveform.
waveform_kwargs(header, data) ==
    [dx_s |-> header.horizontal_interval,
     trigger_index |->
        int_div((tdiv_enum(unpack_H(header.tdiv)) * number_of_time_divisions) \div 2
                    - header.trigger_offset_s,
                header.horizontal_interval),
     ys |-> [i \in 1..(Len(data) \div 2) |-> sample_V(frombuffer_h(data)[i], header)]]

\* Waveform.__init__(self, dx_s, trigger_index, ys, name): no parameter has a default.
Waveform_init_params == {"dx_s", "trigger_index", "ys", "name"}

\* A call Waveform(**kwargs): TypeError when a parameter is left without a value.
Waveform_call(kwargs) ==
    IF Waveform_init_params \ DOMAIN kwargs # {}
    THEN [outcome |-> "TypeError", waveform |-> <<>>]
    ELSE [outcome |-> "returned", waveform |-> kwargs]

Bytes == {0, 1, 128, 255}

Headers ==
    [vertical_scale : {2, 3},
     vertical_offset : {-1, 1},
     code_per_division : {1, 2},
     horizontal_interval : {100, 300},
     trigger_offset_s : {-250, 0, 250},
     tdiv : ((0..MaxTdivIndex) \cup {tdiv_enum_len}) \X {0, 1}]

DataBlocks == UNION {[1..n -> Bytes] : n \in 0..MaxDataBytes}

InitDecoder ==
    /\ d_header \in Headers
    /\ d_data \in DataBlocks
    /\ d_pc = "idle"
    /\ d_outcome = "none"
    /\ d_args = <<>>
    /\ d_waveform = <<>>
    /\ InitDeviceIdle
    /\ InitTriggerIdle
    /\ InitScopeIdle
    /\ InitWaveformIdle
    /\ InitDispatcherIdle
    /\ InitParseIdle
    /\ InitDurationIdle
    /\ InitWindowIdle
    /\ InitChannelIdle
    /\ InitResolverIdle

\* What get_waveform writes up to and including the preamble query.
waveform_setup(channel_num, max_point) ==
    <<":WAVEFORM:MAXPOINT?">>
        \o write(":WAVEFORM:BYTEORDER LSB", FALSE)
        \o write(":WAVEFORM:START 0", FALSE)
        \o write(":WAVEFORM:POINT " \o ToString(max_point), FALSE)
        \o write(":WAVEFORM:INTERVAL 1", FALSE)
        \o write(":WAVEFORM:WIDTH WORD", FALSE)
        \o write(":WAVEFORM:SOURCE C" \o ToString(channel_num), FALSE)
        \o <<":WAVEFORM:PREAMBLE?">>

\* SDS8OscilloscopeChannel.get_waveform. The device reports as its maximum the
\* number of points it holds.
get_waveform(channel_num) ==
    LET setup == waveform_setup(channel_num, Len(d_data) \div 2)
        call == Waveform_call(waveform_kwargs(d_header, d_data))
    IN  /\ d_pc = "idle"
        /\ d_pc' = "done"
        /\ IF unpack_H(d_header.tdiv) >= tdiv_enum_len
           THEN /\ d_outcome' = "IndexError"
                /\ sent' = setup
                /\ UNCHANGED <<d_args, d_waveform>>
           ELSE IF Len(d_data) % 2 # 0
           THEN /\ d_outcome' = "ValueError"
                /\ sent' = setup \o <<":WAVEFORM:DATA?">>
                /\ UNCHANGED <<d_args, d_waveform>>
           ELSE /\ d_outcome' = call.outcome
                /\ sent' = setup \o <<":WAVEFORM:DATA?">>
                /\ d_args' = waveform_kwargs(d_header, d_data)
                /\ d_waveform' = call.waveform
        /\ UNCHANGED <<d_header, d_data>>

NextDecoder ==
    \E channel_num \in 1..MaxChannels : get_waveform(channel_num) /\ UNCHANGED notDecoderVars

SpecDecoder == InitDecoder /\ [][NextDecoder]_vars

(***************************************************************************)
(* Claims about the waveform download, checked under SpecDecoder           *)
(***************************************************************************)

\* A preamble whose timebase index lies in the table and a data block of whole
\* 16-bit codes.
WellFormed ==
    /\ d_header.tdiv[1] + 256 * d_header.tdiv[2] < 39
    /\ Len(d_data) % 2 = 0

\* C10: for a well-formed preamble and data block get_waveform returns a Waveform
\* whose sample interval is the preamble's horizontal interval and whose samples are
\* c * vertical_scale / code_per_division - vertical_offset for each code c, in order.
C10_WellFormedDecodes ==
    (d_pc = "done" /\ WellFormed) =>
        /\ d_outcome = "returned"
        /\ d_waveform.dx_s = d_header.horizontal_interval
        /\ Len(d_waveform.ys) = Len(d_data) \div 2
        /\ \A i \in 1..Len(d_waveform.ys) :
              LET u == d_data[2 * i - 1] + 256 * d_data[2 * i]
                  c == IF u >= 32768 THEN u - 65536 ELSE u
              IN  d_waveform.ys[i].num * d_header.code_per_division =
                    (c * d_header.vertical_scale
                        - d_header.vertical_offset * d_header.code_per_division)
                    * d_waveform.ys[i].den

\* C11: the trigger index computed for a waveform is the quotient
\* (timebase_value * time_divisions / 2 - trigger_delay) / horizontal_interval
\* rounded to the nearest integer: it lies within half an interval of the quotient.
C11_TriggerIndexIsRounded ==
    (d_pc = "done" /\ WellFormed) =>
        LET timebase_value == tdiv_enum(d_header.tdiv[1] + 256 * d_header.tdiv[2])
            numerator == (timebase_value * number_of_time_divisions) \div 2
                            - d_header.trigger_offset_s
            distance == numerator - d_args.trigger_index * d_header.horizontal_interval
        IN  /\ 2 * distance <= d_header.horizontal_interval
            /\ -2 * distance <= d_header.horizontal_interval

(***************************************************************************)
(* Duration and TimeUnit                                                   *)
(*                                                                         *)
(* A magnitude is an exact decimal number m * 10^e, kept as [m, e]; the    *)
(* operations on magnitudes are those the code applies to its floats.      *)
(***************************************************************************)
\* The largest number of decimal places a quotient by a scalar may add.
MaxShift == 3

Dec(m, e) == [m |-> m, e |-> e]

\* The number of decimal digits of a positive integer.
RECURSIVE Digits(_)
Digits(n) == IF n < 10 THEN 1 ELSE 1 + Digits(n \div 10)

\* x + y, x - y, -x, abs(x), x * y on magnitudes.
DecAdd(x, y) ==
    LET e == IF x.e < y.e THEN x.e ELSE y.e
    IN  Dec(x.m * Pow10(x.e - e) + y.m * Pow10(y.e - e), e)

DecNeg(x) == Dec(-x.m, x.e)

DecSub(x, y) == DecAdd(x, DecNeg(y))

DecAbs(x) == Dec(Abs(x.m), x.e)

DecMul(x, y) == Dec(x.m * y.m, x.e + y.e)

\* x / y for y # 0 whose quotient has at most MaxShift more decimal places than x.
DecTrueDiv(x, y) ==
    LET d == Abs(y.m)
        s == CHOOSE s \in 0..MaxShift :
                 /\ (x.m * Pow10(s)) % d = 0
                 /\ \A r \in 0..(s - 1) : (x.m * Pow10(r)) % d # 0
        q == (x.m * Pow10(s)) \div d
    IN  Dec(IF y.m < 0 THEN -q ELSE q, x.e - s - y.e)

\* x < y for positive x and y: by order of magnitude first, then digit by digit.
DecPosLt(x, y) ==
    LET ox == Digits(x.m) + x.e
        oy == Digits(y.m) + y.e
        e == IF x.e < y.e THEN x.e ELSE y.e
    IN  IF ox # oy THEN ox < oy
        ELSE x.m * Pow10(x.e - e) < y.m * Pow10(y.e - e)

\* x < y
DecLt(x, y) ==
    IF x.m <= 0 \/ y.m <= 0
    THEN IF x.m < 0 /\ y.m < 0 THEN DecPosLt(DecNeg(y), DecNeg(x))
         ELSE x.m < y.m
    ELSE DecPosLt(x, y)

DecGt(x, y) == DecLt(y, x)

\* x == y on magnitudes
DecSame(x, y) == ~DecLt(x, y) /\ ~DecLt(y, x)

DecGe(x, y) == ~DecLt(x, y)

\* class TimeUnit(IntEnum): the value of each member, in nanoseconds.
TimeUnits == {"NS", "US", "MS", "S", "KS"}

TimeUnit_value(time_unit) ==
    CASE time_unit = "NS" -> Dec(1, 0)
      [] time_unit = "US" -> Dec(1, 3)
      [] time_unit = "MS" -> Dec(1, 6)
      [] time_unit = "S" -> Dec(1, 9)
      [] time_unit = "KS" -> Dec(1, 12)

\* Python values: a Duration, a number, a string, None, a boolean, NotImplemented;
\* Raise(e) stands for a call that ends by raising e.
Duration(time_interval, time_unit) ==
    [type |-> "Duration", time_interval |-> time_interval, time_unit |-> time_unit]

Number(m, e) == [type |-> "float", number |-> Dec(m, e)]

Str(s) == [type |-> "str", text |-> s]

None == [type |-> "NoneType"]

Bool(b) == [type |-> "bool", truth |-> b]

NotImplemented == [type |-> "NotImplementedType"]

Raise(e) == [type |-> "raise", error |-> e]

isinstance(v, cls) == v.type = cls

\* Duration.to_float
to_float(self, time_unit) ==
    DecTrueDiv(DecMul(self.time_interval, TimeUnit_value(self.time_unit)),
               TimeUnit_value(time_unit))

\* Duration.in_unit
in_unit(self, time_unit) == Duration(to_float(self, time_unit), time_unit)

\* A variant of optimize_fits that leaves out a magnitude of exactly 1.
optimize_fits_above_one(self, time_unit) ==
    /\ DecGt(Dec(1000, 0), to_float(self, time_unit))
    /\ DecGt(to_float(self, time_unit), Dec(1, 0))

\* 1000 > self.to_float(time_unit) >= 1
optimize_fits(self, time_unit) ==
    /\ DecGt(Dec(1000, 0), to_float(self, time_unit))
    /\ DecGe(to_float(self, time_unit), Dec(1, 0))

\* The order in which optimize tries the units.
optimize_order == <<"KS", "S", "MS", "US", "NS">>

\* Duration.optimize
optimize(self) ==
    LET hits == {i \in 1..Len(optimize_order) : optimize_fits(self, optimize_order[i])}
    IN  IF hits # {}
        THEN in_unit(self, optimize_order[CHOOSE i \in hits : \A j \in hits : i <= j])
        ELSE in_unit(self, "NS")

\* Duration.__add__: without a result (None) when other is not a Duration.
Duration_add(self, other) ==
    IF isinstance(other, "Duration")
    THEN optimize(Duration(DecAdd(self.time_interval, to_float(other, self.time_unit)),
                           self.time_unit))
    ELSE None

\* Duration.__sub__
Duration_sub(self, other) ==
    IF isinstance(other, "Duration")
    THEN optimize(Duration(DecSub(self.time_interval, to_float(other, self.time_unit)),
                           self.time_unit))
    ELSE None

\* Duration.__mul__ and Duration.__rmul__, for a number scale
Duration_mul(self, scale) ==
    Duration(DecMul(self.time_interval, scale.number), self.time_unit)

Duration_rmul(self, scale) ==
    Duration(DecMul(self.time_interval, scale.number), self.time_unit)

\* Duration.__truediv__, for a number scale
Duration_truediv(self, scale) ==
    IF scale.number.m = 0
    THEN Raise("ZeroDivisionError")
    ELSE Duration(DecTrueDiv(self.time_interval, scale.number), self.time_unit)

\* Duration.__abs__
Duration_abs(self) == Duration(DecAbs(self.time_interval), self.time_unit)

\* ONE_PICOSECOND = Duration.value_of("0.001ns")
ONE_PICOSECOND_Duration == Duration(Dec(1, -3), "NS")

\* Duration.__gt__
Duration_gt(self, other) ==
    IF isinstance(other, "Duration")
    THEN Bool(DecGt(self.time_interval, to_float(other, self.time_unit)))
    ELSE Raise("RuntimeError")

\* Duration.__lt__
Duration_lt(self, other) ==
    IF isinstance(other, "Duration")
    THEN Bool(DecLt(self.time_interval, to_float(other, self.time_unit)))
    ELSE Raise("RuntimeError")

\* A variant of Duration_eq that leaves a comparison with another type to the
\* other operand, as Python's own types do.
Duration_eq_not_implemented(self, other) ==
    IF isinstance(other, "Duration")
    THEN Duration_lt(Duration_abs(Duration_sub(self, other)), ONE_PICOSECOND_Duration)
    ELSE NotImplemented

\* Duration.__eq__
Duration_eq(self, other) ==
    IF isinstance(other, "Duration")
    THEN Duration_lt(Duration_abs(Duration_sub(self, other)), ONE_PICOSECOND_Duration)
    ELSE Raise("RuntimeError")

\* Duration.__ge__
Duration_ge(self, other) ==
    IF isinstance(other, "Duration")
    THEN Bool(DecGt(self.time_interval, to_float(other, self.time_unit))
              \/ Duration_eq(self, other).truth)
    ELSE Raise("RuntimeError")

\* Duration.__le__
Duration_le(self, other) ==
    IF isinstance(other, "Duration")
    THEN Bool(DecLt(self.time_interval, to_float(other, self.time_unit))
              \/ Duration_eq(self, other).truth)
    ELSE Raise("RuntimeError")

\* Python's evaluation of a comparison v op w: the method of the left operand's
\* type, then the reflected method of the right operand's type, then the default
\* (identity for == and !=, TypeError for an ordering).
ComparisonOps == {"==", "!=", "<", "<=", ">", ">="}

reflected(op) ==
    CASE op = "==" -> "=="
      [] op = "!=" -> "!="
      [] op = "<" -> ">"
      [] op = "<=" -> ">="
      [] op = ">" -> "<"
      [] op = ">=" -> "<="

\* object.__ne__, which Duration inherits: the inverse of __eq__ unless that is
\* NotImplemented or raises.
object_ne(eq_result) ==
    IF eq_result.type = "bool" THEN Bool(~eq_result.truth) ELSE eq_result

\* type(self).__op__(self, other): Duration's methods; the methods of numbers,
\* strings and None return NotImplemented for an operand of another type.
comparison_method(self, op, other) ==
    IF ~isinstance(self, "Duration") THEN NotImplemented
    ELSE CASE op = "==" -> Duration_eq(self, other)
           [] op = "!=" -> object_ne(Duration_eq(self, other))
           [] op = "<" -> Duration_lt(self, other)
           [] op = "<=" -> Duration_le(self, other)
           [] op = ">" -> Duration_gt(self, other)
           [] op = ">=" -> Duration_ge(self, other)

richcompare(v, op, w) ==
    LET first == comparison_method(v, op, w)
        second == comparison_method(w, reflected(op), v)
    IN  IF first.type # "NotImplementedType" THEN first
        ELSE IF second.type # "NotImplementedType" THEN second
        ELSE IF op = "==" THEN Bool(FALSE)
        ELSE IF op = "!=" THEN Bool(TRUE)
        ELSE Raise("TypeError")

\* The Durations the operations are tried on, in groups whose members lie within
\* nine decimal places of each other: around zero and below a picosecond, around a
\* microsecond, around a second, and at the top of the range.
DurationGroups ==
    { { Duration(Dec(0, 0), "NS"), Duration(Dec(6, -4), "NS"), Duration(Dec(12, -4), "NS"),
        Duration(Dec(6, -7), "US"), Duration(Dec(-6, -4), "NS"), Duration(Dec(5, -1), "NS"),
        Duration(Dec(2, 0), "NS"), Duration(Dec(-2, 0), "NS"),
        Duration(Dec(999, 0), "NS"), Duration(Dec(1000, 0), "NS"),
        Duration(Dec(1002, 0), "NS"), Duration(Dec(1002, -6), "MS") },
      { Duration(Dec(1, 0), "S"), Duration(Dec(1000, 0), "MS"), Duration(Dec(1001, 0), "MS"),
        Duration(Dec(1, -3), "KS"), Duration(Dec(1, 0), "MS"), Duration(Dec(2, 0), "MS"),
        Duration(Dec(999, 0), "MS"), Duration(Dec(5, -1), "S") },
      { Duration(Dec(999, 0), "KS"), Duration(Dec(1000, 0), "KS"),
        Duration(Dec(1, 6), "S") } }

\* Values that are not Durations.
NonDurations == {Number(1, 0), Str("1s"), None}

\* Scalars for * and /.
Scalars == {Number(2, 0), Number(0, 0), Number(-1, 0), Number(5, -1)}

InitDuration ==
    /\ \E group \in DurationGroups :
          /\ du_x \in group
          /\ du_y \in group \cup NonDurations
          /\ du_z \in group
    /\ du_pc = "idle"
    /\ du_call = <<>>
    /\ du_result = <<>>
    /\ InitDeviceIdle
    /\ InitTriggerIdle
    /\ InitScopeIdle
    /\ InitWaveformIdle
    /\ InitDispatcherIdle
    /\ InitParseIdle
    /\ InitWindowIdle
    /\ InitChannelIdle
    /\ InitResolverIdle
    /\ InitDecoderIdle

Evaluated(call, result) ==
    /\ du_pc = "idle"
    /\ du_pc' = "done"
    /\ du_call' = call
    /\ du_result' = result
    /\ UNCHANGED <<du_x, du_y, du_z>>

\* du_x op du_y
Compare(op) ==
    Evaluated([op |-> op, left |-> du_x, right |-> du_y], richcompare(du_x, op, du_y))

\* du_y op du_x
CompareReversed(op) ==
    Evaluated([op |-> op, left |-> du_y, right |-> du_x], richcompare(du_y, op, du_x))

\* du_x + du_y and du_x - du_y
Add == Evaluated([op |-> "+", left |-> du_x, right |-> du_y], Duration_add(du_x, du_y))

Subtract == Evaluated([op |-> "-", left |-> du_x, right |-> du_y], Duration_sub(du_x, du_y))

\* du_x * k, k * du_x and du_x / k
Multiply(k) == Evaluated([op |-> "*", left |-> du_x, right |-> k], Duration_mul(du_x, k))

MultiplyReversed(k) ==
    Evaluated([op |-> "*", left |-> k, right |-> du_x], Duration_rmul(du_x, k))

Divide(k) == Evaluated([op |-> "/", left |-> du_x, right |-> k], Duration_truediv(du_x, k))

\* du_x.optimize()
Optimize == Evaluated([op |-> "optimize", left |-> du_x], optimize(du_x))

NextDuration ==
    \/ \E op \in ComparisonOps : Compare(op) /\ UNCHANGED notDurationVars
    \/ \E op \in ComparisonOps : CompareReversed(op) /\ UNCHANGED notDurationVars
    \/ (Add /\ UNCHANGED notDurationVars)
    \/ (Subtract /\ UNCHANGED notDurationVars)
    \/ \E k \in Scalars : Multiply(k) /\ UNCHANGED notDurationVars
    \/ \E k \in Scalars : MultiplyReversed(k) /\ UNCHANGED notDurationVars
    \/ \E k \in Scalars : Divide(k) /\ UNCHANGED notDurationVars
    \/ (Optimize /\ UNCHANGED notDurationVars)

SpecDuration == InitDuration /\ [][NextDuration]_vars

(***************************************************************************)
(* Claims about Duration, checked under SpecDuration                       *)
(***************************************************************************)

\* C12: Duration equality is an equivalence relation on Durations in any mix of
\* units: reflexive, symmetric and transitive, with 1 s == 1000 ms and 1 s # 1001 ms.
C12_EqualityIsEquivalence ==
    (du_pc = "done" /\ du_call.op = "==" /\ isinstance(du_y, "Duration")) =>
        /\ Duration_eq(du_x, du_x).truth
        /\ Duration_eq(du_x, du_y).truth => Duration_eq(du_y, du_x).truth
        /\ (Duration_eq(du_x, du_y).truth /\ Duration_eq(du_y, du_z).truth)
                => Duration_eq(du_x, du_z).truth
        /\ Duration_eq(Duration(Dec(1, 0), "S"), Duration(Dec(1000, 0), "MS")).truth
        /\ ~Duration_eq(Duration(Dec(1, 0), "S"), Duration(Dec(1001, 0), "MS")).truth

\* C22: the ordering of Durations is a consistent total order across units: for
\* Durations a and b exactly one of a < b, a == b, a > b holds, a >= b holds exactly
\* when a < b does not, and a <= b holds exactly when a > b does not.
C22_OrderingIsTotal ==
    (du_pc = "done" /\ du_call.op \in {"<", "<=", ">", ">="} /\ isinstance(du_y, "Duration")) =>
        LET lt == richcompare(du_x, "<", du_y).truth
            eq == richcompare(du_x, "==", du_y).truth
            gt == richcompare(du_x, ">", du_y).truth
            ge == richcompare(du_x, ">=", du_y).truth
            le == richcompare(du_x, "<=", du_y).truth
        IN  /\ lt \/ eq \/ gt
            /\ ~(lt /\ eq) /\ ~(eq /\ gt) /\ ~(lt /\ gt)
            /\ ge <=> ~lt
            /\ le <=> ~gt

\* C13: comparing a Duration with a value that is not a Duration raises an error for
\* each of ==, !=, <, <=, >, >= and with the Duration on either side; no such
\* comparison yields a boolean.
C13_ForeignComparisonRaises ==
    (du_pc = "done" /\ du_call.op \in ComparisonOps /\ ~isinstance(du_y, "Duration")) =>
        /\ du_result.type = "raise"
        /\ \A op \in ComparisonOps :
              /\ richcompare(du_x, op, du_y).type = "raise"
              /\ richcompare(du_y, op, du_x).type = "raise"

\* A string was on the left of != with a Duration on the right, and the comparison
\* raised.
C13_Witness ==
    /\ du_pc = "done"
    /\ du_call.op = "!="
    /\ du_call.left = Str("1s")
    /\ isinstance(du_call.right, "Duration")
    /\ du_result = Raise("RuntimeError")

\* The value of a Duration in nanoseconds.
Nanoseconds(d) == DecMul(d.time_interval, TimeUnit_value(d.time_unit))

\* The magnitude of a value of ns nanoseconds, expressed in time_unit, lies in [1, 1000).
InRange(ns, time_unit) ==
    /\ ~DecLt(ns, TimeUnit_value(time_unit))
    /\ DecLt(ns, DecMul(Dec(1000, 0), TimeUnit_value(time_unit)))

\* time_unit is the largest unit in which ns has a magnitude in [1, 1000), or it is
\* ns when there is no such unit.
IsOptimalUnit(ns, time_unit) ==
    IF \E u \in TimeUnits : InRange(ns, u)
    THEN /\ InRange(ns, time_unit)
         /\ \A u \in TimeUnits :
               InRange(ns, u) => ~DecLt(TimeUnit_value(time_unit), TimeUnit_value(u))
    ELSE time_unit = "NS"

\* The Duration operand of the arithmetic expression du_call.
ArithmeticDuration == IF isinstance(du_call.left, "Duration") THEN du_call.left ELSE du_call.right

\* The result of du_call is the exact sum, difference, product or quotient.
ArithmeticValueIsExact ==
    CASE du_call.op = "+" ->
            DecSame(Nanoseconds(du_result),
                    DecAdd(Nanoseconds(du_call.left), Nanoseconds(du_call.right)))
      [] du_call.op = "-" ->
            DecSame(Nanoseconds(du_result),
                    DecSub(Nanoseconds(du_call.left), Nanoseconds(du_call.right)))
      [] du_call.op = "*" ->
            DecSame(Nanoseconds(du_result),
                    IF isinstance(du_call.left, "Duration")
                    THEN DecMul(Nanoseconds(du_call.left), du_call.right.number)
                    ELSE DecMul(Nanoseconds(du_call.right), du_call.left.number))
      [] du_call.op = "/" ->
            DecSame(DecMul(Nanoseconds(du_result), du_call.right.number),
                    Nanoseconds(du_call.left))

\* An arithmetic expression on Durations (and a scalar, not zero for /) was
\* evaluated.
ArithmeticDone ==
    /\ du_pc = "done"
    /\ du_call.op \in {"+", "-", "*", "/"}
    /\ du_call.op \in {"+", "-"} => isinstance(du_call.right, "Duration")
    /\ du_call.op = "/" => du_call.right.number.m # 0

\* C14: the results of a + b, a - b, a * k and a / k carry the unit of the
\* Duration operand a and their value is the exact sum, difference, product or
\* quotient, for every scalar k (other than a division by zero).
C14_ArithmeticKeepsLeftUnit ==
    ArithmeticDone =>
        /\ isinstance(du_result, "Duration")
        /\ du_result.time_unit = ArithmeticDuration.time_unit
        /\ ArithmeticValueIsExact

\* C15: d.optimize() is equal in value to d and is expressed in the largest unit in
\* which its magnitude lies in [1, 1000), or in ns when no unit gives such a
\* magnitude (zero, negative, below 1 ns, 1000 ks and above); 999 ns stays in ns and
\* 1002 ns becomes us.
C15_OptimizePicksUnit ==
    (du_pc = "done" /\ du_call.op = "optimize") =>
        /\ isinstance(du_result, "Duration")
        /\ DecSame(Nanoseconds(du_result), Nanoseconds(du_x))
        /\ IsOptimalUnit(Nanoseconds(du_x), du_result.time_unit)
        /\ du_x = Duration(Dec(999, 0), "NS") => du_result.time_unit = "NS"
        /\ du_x = Duration(Dec(1002, 0), "NS") => du_result.time_unit = "US"
        /\ (DecLt(Nanoseconds(du_x), Dec(1, 0)) \/ ~DecLt(Nanoseconds(du_x), Dec(1, 15)))
              => du_result.time_unit = "NS"

\* 1000 ns was optimized to 1 us.
C15_Witness ==
    /\ du_pc = "done"
    /\ du_call.op = "optimize"
    /\ du_x = Duration(Dec(1000, 0), "NS")
    /\ du_result.time_unit = "US"
    /\ DecSame(du_result.time_interval, Dec(1, 0))

(***************************************************************************)
(* Duration.value_of: parsing a text                                       *)
(***************************************************************************)
MaxTextLen == 5

\* The character classes \s and \d of the pattern.
Whitespace == {" ", "\t", "\n", "\r", "\f"}

Digit == {"0", "1", "2", "3", "4", "5", "6", "7", "8", "9"}

\* The position after the longest run of characters of class that starts at i.
RECURSIVE Span(_, _, _)
Span(text, i, class) ==
    IF i <= Len(text) /\ text[i] \in class THEN Span(text, i + 1, class) ELSE i

\* text has the characters of word at position i.
At(text, i, word) ==
    /\ i + Len(word) - 1 <= Len(text)
    /\ SubSeq(text, i, i + Len(word) - 1) = word

\* A variant of unit_alternatives without the upper-case spellings.
unit_alternatives_lower_case ==
    << <<"k", "s">>, <<"s">>, <<"m", "s">>, <<"u", "s">>, <<"n", "s">> >>

\* (?P<unit>ks|s|ms|us|ns|KS|S|MS|US|NS), in the order the pattern tries them.
unit_alternatives ==
    << <<"k", "s">>, <<"s">>, <<"m", "s">>, <<"u", "s">>, <<"n", "s">>,
       <<"K", "S">>, <<"S">>, <<"M", "S">>, <<"U", "S">>, <<"N", "S">> >>

\* Duration.__matcher.match: the groups value and unit, or no match.
\*   ^\s*(?P<value>-?\d+(?:\.\d+)?(?:[eE][+-]?\d+)?)\s*(?P<unit>...)\s*$
matcher_match(text) ==
    LET start == Span(text, 1, Whitespace)
        int_at == IF At(text, start, <<"-">>) THEN start + 1 ELSE start
        int_end == Span(text, int_at, Digit)
        frac_end == IF At(text, int_end, <<".">>)
                       /\ Span(text, int_end + 1, Digit) > int_end + 1
                    THEN Span(text, int_end + 1, Digit)
                    ELSE int_end
        exp_digits == IF At(text, frac_end + 1, <<"+">>) \/ At(text, frac_end + 1, <<"-">>)
                      THEN frac_end + 2
                      ELSE frac_end + 1
        value_end == IF (At(text, frac_end, <<"e">>) \/ At(text, frac_end, <<"E">>))
                        /\ Span(text, exp_digits, Digit) > exp_digits
                     THEN Span(text, exp_digits, Digit)
                     ELSE frac_end
        unit_at == Span(text, value_end, Whitespace)
        units == {k \in 1..Len(unit_alternatives) :
                    /\ At(text, unit_at, unit_alternatives[k])
                    /\ Span(text, unit_at + Len(unit_alternatives[k]), Whitespace)
                            = Len(text) + 1}
    IN  IF int_end > int_at /\ units # {}
        THEN [matched |-> TRUE,
              value |-> SubSeq(text, start, value_end - 1),
              unit |-> unit_alternatives[CHOOSE k \in units : \A j \in units : k <= j]]
        ELSE [matched |-> FALSE]

\* str.lower on the characters of a unit.
lower(s) ==
    [i \in 1..Len(s) |->
        CASE s[i] = "K" -> "k" [] s[i] = "S" -> "s" [] s[i] = "M" -> "m"
          [] s[i] = "U" -> "u" [] s[i] = "N" -> "n" [] OTHER -> s[i]]

\* TimeUnit.value_of for a string
TimeUnit_value_of(s) ==
    CASE lower(s) = <<"n", "s">> -> "NS"
      [] lower(s) = <<"u", "s">> -> "US"
      [] lower(s) = <<"m", "s">> -> "MS"
      [] lower(s) = <<"s">> -> "S"
      [] lower(s) = <<"k", "s">> -> "KS"
      [] OTHER -> "RuntimeError"

\* int() of a run of digits
RECURSIVE int_of(_)
int_of(digits) ==
    IF digits = <<>> THEN 0
    ELSE 10 * int_of(SubSeq(digits, 1, Len(digits) - 1))
            + (CHOOSE d \in 0..9 : ToString(d) = digits[Len(digits)])

\* float() of the text of the group value: sign, digits, fraction, exponent.
float(value) ==
    LET int_at == IF At(value, 1, <<"-">>) THEN 2 ELSE 1
        int_end == Span(value, int_at, Digit)
        frac_end == IF At(value, int_end, <<".">>) THEN Span(value, int_end + 1, Digit)
                    ELSE int_end
        mantissa == int_of(SubSeq(value, int_at, int_end - 1)
                            \o SubSeq(value, int_end + 1, frac_end - 1))
        places == IF frac_end > int_end THEN frac_end - int_end - 1 ELSE 0
        exp_negative == At(value, frac_end + 1, <<"-">>)
        exp_at == IF exp_negative \/ At(value, frac_end + 1, <<"+">>)
                  THEN frac_end + 2 ELSE frac_end + 1
        exponent == IF frac_end <= Len(value)
                    THEN int_of(SubSeq(value, exp_at, Len(value)))
                    ELSE 0
    IN  Dec(IF int_at = 2 THEN -mantissa ELSE mantissa,
            (IF exp_negative THEN -exponent ELSE exponent) - places)

\* Duration.value_of for a text
Duration_value_of(s) ==
    LET match_result == matcher_match(s)
    IN  IF match_result.matched
        THEN Duration(float(match_result.value), TimeUnit_value_of(match_result.unit))
        ELSE Raise("RuntimeError")

\* The characters the texts are made of, and the texts.
TextCharacters == {" ", "-", "+", "1", ".", "e", "k", "s", "K", "S"}

Texts == UNION {[1..n -> TextCharacters] : n \in 0..MaxTextLen}

InitParse ==
    /\ p_text \in Texts
    /\ p_pc = "idle"
    /\ p_result = <<>>
    /\ InitDeviceIdle
    /\ InitTriggerIdle
    /\ InitScopeIdle
    /\ InitWaveformIdle
    /\ InitDispatcherIdle
    /\ InitDurationIdle
    /\ InitWindowIdle
    /\ InitChannelIdle
    /\ InitResolverIdle
    /\ InitDecoderIdle

Parse ==
    /\ p_pc = "idle"
    /\ p_pc' = "done"
    /\ p_result' = Duration_value_of(p_text)
    /\ UNCHANGED p_text

NextParse == Parse /\ UNCHANGED notParseVars

SpecParse == InitParse /\ [][NextParse]_vars

(***************************************************************************)
(* Claims about parsing, checked under SpecParse                           *)
(***************************************************************************)

\* The texts of at most MaxTextLen characters of the form
\*   <whitespace><sign><digits><fraction><exponent><whitespace><unit><whitespace>
\* over the characters of Texts, for a given set of unit spellings; the sign of the
\* number is a minus sign, that of the exponent a plus or a minus sign.
Runs(c, lo, hi) == {[i \in 1..n |-> c] : n \in lo..hi}

NumberTexts ==
    LET signs == {<<>>, <<"-">>}
        digits == Runs("1", 1, MaxTextLen)
        fractions == {<<>>} \cup {<<".">> \o d : d \in digits}
        exponents == {<<>>} \cup {<<"e">> \o s \o d : s \in signs \cup {<<"+">>}, d \in digits}
    IN  {n \in {s \o d \o f \o x : s \in signs, d \in digits,
                                    f \in fractions, x \in exponents} :
            Len(n) < MaxTextLen}

FormTexts(units) ==
    LET blanks == Runs(" ", 0, MaxTextLen)
        heads == {h \in {a \o n \o b : a \in blanks, n \in NumberTexts, b \in blanks} :
                    Len(h) < MaxTextLen}
    IN  {text \in {h \o u \o c : h \in heads, u \in units, c \in blanks} :
            Len(text) <= MaxTextLen}

UnitNames == {<<"n", "s">>, <<"u", "s">>, <<"m", "s">>, <<"s">>, <<"k", "s">>}

UpperCase(c) ==
    CASE c = "n" -> "N" [] c = "u" -> "U" [] c = "m" -> "M" [] c = "s" -> "S" [] c = "k" -> "K"

\* Every upper/lower-case spelling of a unit name.
AnyCaseUnits ==
    UNION {{v \in [1..Len(u) -> {"n", "u", "m", "s", "k", "N", "U", "M", "S", "K"}] :
                \A i \in 1..Len(u) : v[i] \in {u[i], UpperCase(u[i])}} : u \in UnitNames}

\* The unit names written all in lower case or all in upper case.
LowerOrUpperCaseUnits ==
    UnitNames \cup {[i \in 1..Len(u) |-> UpperCase(u[i])] : u \in UnitNames}

AnyCaseForms == FormTexts(AnyCaseUnits)

LowerOrUpperCaseForms == FormTexts(LowerOrUpperCaseUnits)

\* C16 as stated: parsing succeeds exactly for the texts of the form above whose
\* unit, compared case-insensitively, is one of ns, us, ms, s, ks (every upper/lower
\* case spelling is accepted), and fails with an error for every other text.
C16_ParsesAnyCaseUnit ==
    p_pc = "done" =>
        IF p_text \in AnyCaseForms
        THEN isinstance(p_result, "Duration")
        ELSE isinstance(p_result, "raise")

\* C16 amended: parsing succeeds exactly for the texts of the form above whose unit
\* is one of ns, us, ms, s, ks written all in lower case or all in upper case, and
\* fails with an error for every other text, a unit in mixed case included.
C16_ParsesLowerOrUpperCaseUnit ==
    p_pc = "done" =>
        IF p_text \in LowerOrUpperCaseForms
        THEN /\ isinstance(p_result, "Duration")
             /\ p_result.time_unit \in TimeUnits
        ELSE p_result = Raise("RuntimeError")

\* "1 Ks" was parsed and raised.
C16_Witness ==
    /\ p_pc = "done"
    /\ p_text = <<"1", " ", "K", "s">>
    /\ p_result = Raise("RuntimeError")

(***************************************************************************)
(* CommandDispatcher over a VISA resource, step by step                    *)
(*                                                                         *)
(* The device takes the commands written to it in order, some time after   *)
(* they were written, and answers *OPC? once it has processed everything   *)
(* before it.                                                              *)
(***************************************************************************)
\* The most commands the device holds unprocessed.
MaxPending == 3

Written(msg) == [op |-> "write", msg |-> msg]

ReadReply(reply) == [op |-> "read", reply |-> reply]

\* One call CommandDispatcher.write(msg, synchronize).
WriteCall(msg, synchronize) == [msg |-> msg, synchronize |-> synchronize]

\* A variant of arm_writes that does not synchronize the run command.
arm_writes_unsynchronized(mode) ==
    << WriteCall(":TRIGGER:MODE " \o mode, FALSE), WriteCall(":TRIGGER:RUN", FALSE) >>

\* arm_single / arm_auto / arm_normal: the two dispatcher calls each makes.
arm_writes(mode) ==
    << WriteCall(":TRIGGER:MODE " \o mode, FALSE), WriteCall(":TRIGGER:RUN", TRUE) >>

ArmModes == {"SINGLE", "AUTO", "NORMAL"}

\* Commands for a plain CommandDispatcher.write call.
Commands == {":TRIGGER:STOP", ":TRIGGER:MODE AUTO", ":WAVEFORM:START 0"}

InitDispatcher ==
    /\ cd_call = <<>>
    /\ cd_todo = <<>>
    /\ cd_pc = "idle"
    /\ cd_log = <<>>
    /\ cd_dev_in = <<>>
    /\ cd_dev_out = <<>>
    /\ cd_dev_mode \in ArmModes
    /\ cd_dev_status \in {"stop", "ready"}
    /\ InitDeviceIdle
    /\ InitTriggerIdle
    /\ InitScopeIdle
    /\ InitWaveformIdle
    /\ InitDurationIdle
    /\ InitParseIdle
    /\ InitWindowIdle
    /\ InitChannelIdle
    /\ InitResolverIdle
    /\ InitDecoderIdle

deviceVars == <<cd_dev_in, cd_dev_out, cd_dev_mode, cd_dev_status>>

\* A driver call starts: the dispatcher calls it will make, none made yet.
Started(call, todo) ==
    /\ cd_pc \in {"idle", "done"}
    /\ cd_call' = call
    /\ cd_todo' = todo
    /\ cd_pc' = "write"
    /\ cd_log' = <<>>
    /\ UNCHANGED deviceVars

\* The caller calls CommandDispatcher.write(msg, synchronize).
write_called(msg, synchronize) ==
    Started([name |-> "write", msg |-> msg, synchronize |-> synchronize],
            <<WriteCall(msg, synchronize)>>)

\* The caller calls arm_single, arm_auto or arm_normal.
arm_called(mode) == Started([name |-> "arm", mode |-> mode], arm_writes(mode))

\* Where a dispatcher call goes on after its last step: to the next one, or back to
\* the caller.
AfterCall == IF Len(cd_todo) > 1 THEN "write" ELSE "done"

\* A variant of write_synchronizes that never synchronizes.
write_never_synchronizes(call) == FALSE

\* if synchronize:
write_synchronizes(call) == call.synchronize

\* CommandDispatcher.write: self.visa_resource.write(msg)
write_msg ==
    /\ cd_pc = "write"
    /\ Len(cd_dev_in) < MaxPending
    /\ cd_log' = Append(cd_log, Written(cd_todo[1].msg))
    /\ cd_dev_in' = Append(cd_dev_in, cd_todo[1].msg)
    /\ IF write_synchronizes(cd_todo[1])
       THEN cd_pc' = "sync" /\ cd_todo' = cd_todo
       ELSE cd_pc' = AfterCall /\ cd_todo' = Tail(cd_todo)
    /\ UNCHANGED <<cd_call, cd_dev_out, cd_dev_mode, cd_dev_status>>

\* CommandDispatcher.sync: the query *OPC?, first its write ...
sync_write ==
    /\ cd_pc = "sync"
    /\ Len(cd_dev_in) < MaxPending
    /\ cd_log' = Append(cd_log, Written("*OPC?"))
    /\ cd_dev_in' = Append(cd_dev_in, "*OPC?")
    /\ cd_pc' = "read"
    /\ UNCHANGED <<cd_call, cd_todo, cd_dev_out, cd_dev_mode, cd_dev_status>>

\* ... then the read of its reply, which blocks until the device has answered.
sync_read ==
    /\ cd_pc = "read"
    /\ cd_dev_out # <<>>
    /\ cd_log' = Append(cd_log, ReadReply(Head(cd_dev_out)))
    /\ cd_dev_out' = Tail(cd_dev_out)
    /\ cd_pc' = AfterCall
    /\ cd_todo' = Tail(cd_todo)
    /\ UNCHANGED <<cd_call, cd_dev_in, cd_dev_mode, cd_dev_status>>

\* The device processes the oldest command it holds.
DeviceProcess ==
    /\ cd_dev_in # <<>>
    /\ cd_dev_in' = Tail(cd_dev_in)
    /\ cd_dev_mode' =
          IF \E mode \in ArmModes : Head(cd_dev_in) = ":TRIGGER:MODE " \o mode
          THEN CHOOSE mode \in ArmModes : Head(cd_dev_in) = ":TRIGGER:MODE " \o mode
          ELSE cd_dev_mode
    /\ cd_dev_status' =
          CASE Head(cd_dev_in) = ":TRIGGER:RUN" -> "ready"
            [] Head(cd_dev_in) = ":TRIGGER:STOP" -> "stop"
            [] OTHER -> cd_dev_status
    /\ cd_dev_out' = IF Head(cd_dev_in) = "*OPC?" THEN Append(cd_dev_out, "1") ELSE cd_dev_out
    /\ UNCHANGED <<cd_call, cd_todo, cd_pc, cd_log>>

NextDispatcher ==
    \/ \E msg \in Commands, synchronize \in BOOLEAN :
            write_called(msg, synchronize) /\ UNCHANGED notDispatcherVars
    \/ \E mode \in ArmModes : arm_called(mode) /\ UNCHANGED notDispatcherVars
    \/ (write_msg /\ UNCHANGED notDispatcherVars)
    \/ (sync_write /\ UNCHANGED notDispatcherVars)
    \/ (sync_read /\ UNCHANGED notDispatcherVars)
    \/ (DeviceProcess /\ UNCHANGED notDispatcherVars)

SpecDispatcher == InitDispatcher /\ [][NextDispatcher]_vars

(***************************************************************************)
(* Claims about the dispatcher and arming, checked under SpecDispatcher    *)
(***************************************************************************)

\* C17: write(command, synchronize=True) sends the command, then sends *OPC? and reads
\* its reply, in that order, and returns only after the reply was read;
\* write(command, synchronize=False) sends only the command and reads nothing; no
\* command is sent twice.
C17_WriteThenOpc ==
    (cd_pc = "done" /\ cd_call.name = "write") =>
        cd_log = IF cd_call.synchronize
                 THEN <<Written(cd_call.msg), Written("*OPC?"), ReadReply("1")>>
                 ELSE <<Written(cd_call.msg)>>

\* A synchronized write returned, after three steps on the VISA resource.
C17_Witness ==
    /\ cd_pc = "done"
    /\ cd_call.name = "write"
    /\ cd_call.synchronize
    /\ Len(cd_log) = 3
    /\ cd_log[3].op = "read"

\* C19: each of arm_single, arm_auto, arm_normal, in any trigger state, sends its mode
\* command, then the run command, then *OPC?, with nothing in between, returns only
\* after the *OPC? reply, and leaves the trigger mode equal to the mode requested.
C19_ArmSequence ==
    (cd_pc = "done" /\ cd_call.name = "arm") =>
        /\ cd_log = <<Written(":TRIGGER:MODE " \o cd_call.mode), Written(":TRIGGER:RUN"),
                      Written("*OPC?"), ReadReply("1")>>
        /\ cd_dev_mode = cd_call.mode
        /\ cd_dev_status = "ready"

\* arm_single returned after four steps on the VISA resource, the device in SINGLE mode.
C19_Witness ==
    /\ cd_pc = "done"
    /\ cd_call.name = "arm"
    /\ cd_call.mode = "SINGLE"
    /\ cd_dev_mode = "SINGLE"
    /\ Len(cd_log) = 4

(***************************************************************************)
(* Waveform (model/waveform.py): arrays are objects with an identity.  The *)
(* heap wf_heap holds every numpy array by position; a Waveform holds the  *)
(* positions of its arrays, and the caller holds the positions of the      *)
(* arrays that calls returned to it.                                       *)
(***************************************************************************)
MaxWaveforms == 2

MaxArrays == 4

\* Waveform.__init__: keeps the array ys it is given, builds the time axis as a new
\* array and the list of (x, y) pairs from the values of both.  ys and the axis are the
\* next two arrays of the heap.
Waveform___init__(heap, dx_s, trigger_index, ys_values, name) ==
    LET ys == Len(heap) + 1
        xs_values == [i \in 1..Len(ys_values) |-> DecMul(Dec(i - 1 - trigger_index, 0), dx_s)]
    IN  [heap |-> heap \o <<ys_values, xs_values>>,
         self |-> [type |-> "Waveform",
                   dx_s |-> dx_s,
                   trigger_index |-> trigger_index,
                   ys |-> ys,
                   xs_s |-> ys + 1,
                   xy |-> [i \in 1..Len(ys_values) |-> <<xs_values[i], ys_values[i]>>],
                   name |-> name]]

\* The predicates a caller passes as x_predicate: none, or "x >= 0".
XPredicates == {"None", "lambda x: x >= 0"}

Holds(x_predicate, x) == x.m >= 0

\* The elementwise operations of numpy on arrays of equal length.
np_scale(a, k) == [i \in 1..Len(a) |-> DecMul(a[i], k)]

np_divide(a, k) == [i \in 1..Len(a) |-> DecTrueDiv(a[i], k)]

np_multiply(a, b) == [i \in 1..Len(a) |-> DecMul(a[i], b[i])]

np_add(a, b) == [i \in 1..Len(a) |-> DecAdd(a[i], b[i])]

np_any_differ(a, b) == \E i \in 1..Len(a) : ~DecSame(a[i], b[i])

\* [ab[0] for ab in xy if x_predicate(ab[0])] and [ab[1] for ...].
xy_select(xy, x_predicate, column) ==
    LET kept == SelectSeq(xy, LAMBDA ab : Holds(x_predicate, ab[1]))
    IN  [i \in 1..Len(kept) |-> kept[i][column]]

\* Waveform.x: the values of the array it returns, always a new array.
Waveform_x(heap, self, time_unit, x_predicate) ==
    LET phys_unit_scale == DecTrueDiv(TimeUnit_value("S"), TimeUnit_value(time_unit))
    IN  IF x_predicate = "None"
        THEN np_scale(heap[self.xs_s], phys_unit_scale)
        ELSE np_scale(xy_select(self.xy, x_predicate, 1), phys_unit_scale)

\* Waveform.y: without a predicate the array the Waveform itself holds ("alias" of it),
\* with a predicate a new array ("values" for it).
Waveform_y(heap, self, x_predicate) ==
    IF x_predicate = "None"
    THEN [alias |-> self.ys]
    ELSE [values |-> xy_select(self.xy, x_predicate, 2)]

\* The arithmetic operators: the constructor arguments of the Waveform they return, or
\* the exception they raise.  other is a Waveform, a number or any other value.
NewWaveform(self, ys_values) ==
    [type |-> "new", dx_s |-> self.dx_s, trigger_index |-> self.trigger_index,
     ys |-> ys_values, name |-> self.name]

Waveform_mul(heap, self, other) ==
    IF isinstance(other, "Waveform")
    THEN IF np_any_differ(heap[self.xs_s], heap[other.xs_s])
         THEN Raise("RuntimeError")
         ELSE NewWaveform(self, np_multiply(heap[self.ys], heap[other.ys]))
    ELSE IF isinstance(other, "float")
    THEN NewWaveform(self, np_scale(heap[self.ys], other.number))
    ELSE Raise("RuntimeError")

Waveform_rmul(heap, self, other) ==
    IF isinstance(other, "float")
    THEN NewWaveform(self, np_scale(heap[self.ys], other.number))
    ELSE Raise("RuntimeError")

Waveform_truediv(heap, self, scale) ==
    IF isinstance(scale, "float")
    THEN NewWaveform(self, np_divide(heap[self.ys], scale.number))
    ELSE Raise("RuntimeError")

\* The second operand of __add__ is a Waveform or the constructor arguments of one
\* (the temporary -1 * other of __sub__); axis is the time axis of that operand.
Waveform_add(heap, self, other, other_ys, other_xs) ==
    IF ~isinstance(other, "Waveform")
    THEN Raise("RuntimeError")
    ELSE IF np_any_differ(heap[self.xs_s], other_xs)
    THEN Raise("RuntimeError")
    ELSE NewWaveform(self, np_add(heap[self.ys], other_ys))

Waveform_sub(heap, self, other) ==
    IF ~isinstance(other, "Waveform")
    THEN Raise("RuntimeError")
    ELSE LET negated == Waveform_rmul(heap, other, Number(-1, 0))
             temporary == Waveform___init__(heap, negated.dx_s, negated.trigger_index,
                                            negated.ys, negated.name)
         IN  Waveform_add(temporary.heap, self, temporary.self,
                          temporary.heap[temporary.self.ys],
                          temporary.heap[temporary.self.xs_s])

\* What a caller can observe of a Waveform: its samples, trigger index, sample interval
\* and name.
Observed(heap, self) ==
    [samples |-> heap[self.ys], trigger_index |-> self.trigger_index,
     dx_s |-> self.dx_s, name |-> self.name]

\* The values a caller works with.
SampleArrays ==
    {<<Dec(1, 0), Dec(2, 0)>>, <<Dec(-5, -1), Dec(0, 0)>>}

SampleIntervals == {Dec(2, -6)}

WaveformNames == {"C1", "renamed"}

WaveformScalars == {Number(2, 0), Number(-1, 0)}

OtherValues == {None}

AxisUnits == {"S", "MS"}

\* The state after the caller constructed its first Waveform from an array no one else
\* holds.
InitWaveform ==
    /\ \E dx_s \in SampleIntervals, trigger_index \in 0..1, ys \in SampleArrays :
           LET made == Waveform___init__(<<>>, dx_s, trigger_index, ys, "C1")
           IN  /\ wf_heap = made.heap
               /\ wf_objects = <<made.self>>
               /\ wf_snapshots = <<Observed(made.heap, made.self)>>
    /\ wf_returned = {}
    /\ wf_call = "Waveform"
    /\ InitDeviceIdle
    /\ InitTriggerIdle
    /\ InitScopeIdle
    /\ InitDurationIdle
    /\ InitParseIdle
    /\ InitDispatcherIdle
    /\ InitWindowIdle
    /\ InitChannelIdle
    /\ InitResolverIdle
    /\ InitDecoderIdle

Waveforms == 1..Len(wf_objects)

\* A call returned a new array: it joins the heap and the caller holds it.
ReturnNewArrays(arrays) ==
    /\ Len(wf_heap) + Len(arrays) <= MaxArrays
    /\ wf_heap' = wf_heap \o arrays
    /\ wf_returned' = wf_returned \cup ((Len(wf_heap) + 1)..(Len(wf_heap) + Len(arrays)))

\* An operator returned: a new Waveform built by the constructor, or nothing when it
\* raised.
ReturnWaveform(result) ==
    IF result.type = "raise"
    THEN UNCHANGED <<wf_heap, wf_objects, wf_snapshots>>
    ELSE LET made == Waveform___init__(wf_heap, result.dx_s, result.trigger_index,
                                       result.ys, result.name)
         IN  /\ Len(wf_objects) < MaxWaveforms
             /\ Len(made.heap) <= MaxArrays
             /\ wf_heap' = made.heap
             /\ wf_objects' = Append(wf_objects, made.self)
             /\ wf_snapshots' = Append(wf_snapshots, Observed(made.heap, made.self))

\* The caller constructs another Waveform.
construct ==
    /\ wf_objects # <<>>
    /\ \E dx_s \in SampleIntervals, trigger_index \in 0..1, ys \in SampleArrays :
           ReturnWaveform([type |-> "new", dx_s |-> dx_s, trigger_index |-> trigger_index,
                           ys |-> ys, name |-> "C1"])
    /\ UNCHANGED wf_returned
    /\ wf_call' = "Waveform"
    /\ UNCHANGED notWaveformVars

x_called ==
    /\ \E w \in Waveforms, time_unit \in AxisUnits, x_predicate \in XPredicates :
           /\ ReturnNewArrays(<<Waveform_x(wf_heap, wf_objects[w], time_unit, x_predicate)>>)
    /\ UNCHANGED <<wf_objects, wf_snapshots>>
    /\ wf_call' = "x"
    /\ UNCHANGED notWaveformVars

y_called ==
    /\ \E w \in Waveforms, x_predicate \in XPredicates :
           LET returned == Waveform_y(wf_heap, wf_objects[w], x_predicate)
           IN  /\ IF "alias" \in DOMAIN returned
                  THEN /\ wf_returned' = wf_returned \cup {returned.alias}
                       /\ UNCHANGED wf_heap
                  ELSE ReturnNewArrays(<<returned.values>>)
    /\ UNCHANGED <<wf_objects, wf_snapshots>>
    /\ wf_call' = "y"
    /\ UNCHANGED notWaveformVars

xy_called ==
    /\ \E w \in Waveforms, time_unit \in AxisUnits, x_predicate \in XPredicates :
           LET xs == Waveform_x(wf_heap, wf_objects[w], time_unit, x_predicate)
               ys == Waveform_y(wf_heap, wf_objects[w], x_predicate)
           IN  /\ IF "alias" \in DOMAIN ys
                  THEN /\ Len(wf_heap) < MaxArrays
                       /\ wf_heap' = Append(wf_heap, xs)
                       /\ wf_returned' = wf_returned \cup {Len(wf_heap) + 1, ys.alias}
                  ELSE ReturnNewArrays(<<xs, ys.values>>)
    /\ UNCHANGED <<wf_objects, wf_snapshots>>
    /\ wf_call' = "xy"
    /\ UNCHANGED notWaveformVars

\* w.name = name
name_set ==
    /\ \E w \in Waveforms, name \in WaveformNames :
           /\ wf_objects' = [wf_objects EXCEPT ![w].name = name]
    /\ UNCHANGED <<wf_heap, wf_snapshots, wf_returned>>
    /\ wf_call' = "name"
    /\ UNCHANGED notWaveformVars

Operands == {wf_objects[w] : w \in Waveforms} \cup WaveformScalars \cup OtherValues

mul_called ==
    /\ \E w \in Waveforms, other \in Operands :
           /\ ReturnWaveform(Waveform_mul(wf_heap, wf_objects[w], other))
    /\ UNCHANGED wf_returned
    /\ wf_call' = "__mul__"
    /\ UNCHANGED notWaveformVars

rmul_called ==
    /\ \E w \in Waveforms, other \in WaveformScalars \cup OtherValues :
           /\ ReturnWaveform(Waveform_rmul(wf_heap, wf_objects[w], other))
    /\ UNCHANGED wf_returned
    /\ wf_call' = "__rmul__"
    /\ UNCHANGED notWaveformVars

truediv_called ==
    /\ \E w \in Waveforms, scale \in Operands :
           /\ ReturnWaveform(Waveform_truediv(wf_heap, wf_objects[w], scale))
    /\ UNCHANGED wf_returned
    /\ wf_call' = "__truediv__"
    /\ UNCHANGED notWaveformVars

add_called ==
    /\ \E w \in Waveforms, other \in Operands :
           /\ ReturnWaveform(
                  IF isinstance(other, "Waveform")
                  THEN Waveform_add(wf_heap, wf_objects[w], other,
                                    wf_heap[other.ys], wf_heap[other.xs_s])
                  ELSE Waveform_add(wf_heap, wf_objects[w], other, <<>>, <<>>))
    /\ UNCHANGED wf_returned
    /\ wf_call' = "__add__"
    /\ UNCHANGED notWaveformVars

sub_called ==
    /\ \E w \in Waveforms, other \in Operands :
           /\ ReturnWaveform(Waveform_sub(wf_heap, wf_objects[w], other))
    /\ UNCHANGED wf_returned
    /\ wf_call' = "__sub__"
    /\ UNCHANGED notWaveformVars

\* The caller stores a value into an array that a call returned to it.
NewSamples == {Dec(9, 0)}

modify_returned ==
    /\ \E a \in wf_returned, i \in 1..2, v \in NewSamples :
           /\ i <= Len(wf_heap[a])
           /\ wf_heap' = [wf_heap EXCEPT ![a][i] = v]
    /\ UNCHANGED <<wf_objects, wf_snapshots, wf_returned>>
    /\ wf_call' = "store"
    /\ UNCHANGED notWaveformVars

NextWaveform ==
    \/ construct
    \/ x_called
    \/ y_called
    \/ xy_called
    \/ name_set
    \/ mul_called
    \/ rmul_called
    \/ truediv_called
    \/ add_called
    \/ sub_called
    \/ modify_returned

SpecWaveform == InitWaveform /\ [][NextWaveform]_vars

\* C18: no operation on a Waveform and no store into a sequence that a call returned
\* changes the samples, trigger index, sample interval or name of an existing Waveform:
\* each Waveform is observed as it was constructed.
C18_WaveformsNeverChange ==
    \A w \in 1..Len(wf_objects) : Observed(wf_heap, wf_objects[w]) = wf_snapshots[w]

(***************************************************************************)
(* oscilloscope(address) (instruments.py): the identification is resolved  *)
(* to a descriptor and the descriptor's driver class is constructed.       *)
(***************************************************************************)
DecimalDigits == <<"0", "1", "2", "3", "4", "5", "6", "7", "8", "9">>

\* int(c) for a string of one character.
int_of_character(c) ==
    IF \E d \in 1..Len(DecimalDigits) : DecimalDigits[d] = c
    THEN Number((CHOOSE d \in 1..Len(DecimalDigits) : DecimalDigits[d] = c) - 1, 0)
    ELSE Raise("ValueError")

\* spec.model[5]: the sixth character of the model name.
model_5(model) == IF Len(model) >= 6 THEN Str(model[6]) ELSE Raise("IndexError")

\* SDS8Oscilloscope.__init__
SDS8Oscilloscope___init__(spec) ==
    LET character == model_5(spec.model)
        channels == IF character.type = "raise" THEN character
                    ELSE int_of_character(character.text)
    IN  IF channels.type = "raise"
        THEN channels
        ELSE [type |-> "SDS8Oscilloscope",
              spec |-> spec,
              properties |-> [number_of_time_divisions |-> number_of_time_divisions,
                              number_of_vertical_divisions |-> number_of_vertical_divisions,
                              number_of_channels |-> channels.number.m]]

\* oscilloscope(address), for a device that answers *IDN? with idn.
oscilloscope(address, idn) ==
    LET spec == get_spec(address, idn)
    IN  IF spec.instrument_type = "Oscilloscope"
        THEN IF spec.instrument_class = "SDS8Oscilloscope"
             THEN SDS8Oscilloscope___init__(spec)
             ELSE Raise("TypeError")
        ELSE Raise("RuntimeError")

\* The identifications of the devices tried: four fields, the make the registered
\* vendor or not, the model the prefix SDS8 followed by up to MaxModelSuffix
\* characters, or another name.
MaxModelSuffix == 3

ModelCharacters == {"0", "4", "X"}

ModelSuffixes == UNION {[1..n -> ModelCharacters] : n \in 0..MaxModelSuffix}

ModelNames == {SDS8 \o s : s \in ModelSuffixes} \cup {<<"X">> \o SDS8 \o <<"0", "4">>}

ScopeIdns ==
    {JoinWithCommas(<<make, model, <<"S", "N">>, <<"1">> \o ending>>) :
        make \in {SiglentTechnologies, SiglentTechnologies \o <<"x">>},
        model \in ModelNames,
        ending \in {<<>>, <<"\n">>}}

InitScope ==
    /\ o_idn \in ScopeIdns
    /\ o_pc = "idle"
    /\ o_result = <<>>
    /\ InitDeviceIdle
    /\ InitTriggerIdle
    /\ InitWaveformIdle
    /\ InitDispatcherIdle
    /\ InitParseIdle
    /\ InitDurationIdle
    /\ InitWindowIdle
    /\ InitChannelIdle
    /\ InitResolverIdle
    /\ InitDecoderIdle

oscilloscope_called(address) ==
    /\ o_pc = "idle"
    /\ o_pc' = "done"
    /\ o_result' = oscilloscope(address, o_idn)
    /\ UNCHANGED o_idn

NextScope ==
    \E address \in {"TCPIP0::scope"} : oscilloscope_called(address) /\ UNCHANGED notScopeVars

SpecScope == InitScope /\ [][NextScope]_vars

\* C23: for every identification whose make is "Siglent Technologies" and whose model
\* starts with "SDS8", oscilloscope(address) constructs the SDS8 driver without error,
\* and the driver's number_of_channels is positive.
C23_ResolvedScopeConstructs ==
    LET spec == idn_to_spec_initial("TCPIP0::scope", o_idn)
    IN  (/\ o_pc = "done"
         /\ spec.make = SiglentTechnologies
         /\ startswith(spec.model, SDS8)) =>
            /\ o_result.type = "SDS8Oscilloscope"
            /\ o_result.properties.number_of_channels > 0

====
